---- MODULE Spec2Model ----
(***************************************************************************)
(* A model of the persistence layer (Service/DB/Operation.py), the         *)
(* projections of Service/DB/ExtractInfo.py and the request handlers of    *)
(* app.py that call them.  Tables are the module's variables; every        *)
(* accessor is an action.  Each group of accessors has its own             *)
(* specification over the tables it touches.                               *)
(***************************************************************************)
EXTENDS Integers, Sequences, FiniteSets, TLC

(* ---------------------------- bounds ----------------------------------- *)
NumUsers == 2
NumJournals == 2
NumGroups == 2
NumProcs == 2
MaxCalls == 3
MaxRows == 2
NumTimes == 1
NumSessions == 1

UserIDs == 1..NumUsers
JournalIDs == 1..NumJournals
GroupIDs == 1..NumGroups
Procs == 1..NumProcs
Times == 1..NumTimes
Sessions == 1..NumSessions
\* an id that names no row of the User table
NoUser == NumUsers + 1

VARIABLES
  User,                  \* User table
  Journal,               \* Journal table
  JournalComment,        \* JournalComment table
  JournalLike,           \* JournalLike table: rows stored per (authorID, journalID)
  Group,                 \* Group table
  GroupDiscussion,       \* GroupDiscussion table
  GroupDiscussionReply,  \* GroupDiscussionReply table
  Book,                  \* Book table
  Error,                 \* Error table
  Chat,                  \* Chat table
  autoInc,               \* per table: the next AUTO_INCREMENT id
  ret,                   \* the last accessor call and what it returned or raised
  request,               \* per worker: the request it is executing
  liked,                 \* history: the keys for which a call has returned True
  calls,                 \* number of requests started so far
  registered,            \* history: per user id, the account and password given to addUser
  image,                 \* the image file the crop functions work on: its size, None when missing
  imwrite,               \* the window of the image read that the last call gave to cv2.imwrite
  smtp,                  \* the SMTP session of Mail._send and the mails the relay accepted
  session                \* per browser: the keys Flask keeps in its session cookie

tables == <<User, Journal, JournalComment, Group, GroupDiscussion,
            GroupDiscussionReply, Book, Error, Chat, autoInc>>

likeVars == <<JournalLike, request, liked, calls>>

ioVars == <<image, imwrite, smtp, session>>

vars == <<tables, ret, likeVars, registered, ioVars>>

(* ---------------------------- values ----------------------------------- *)
\* Python's None
None == [kind |-> "None"]
\* a returned value
Value(v) == [kind |-> "value", val |-> v]
\* an exception that leaves the accessor
Raise(exc) == [kind |-> "raise", exc |-> exc]

NoRet == [op |-> "none", arg |-> <<>>, res |-> None]

\* Query.first(): a row of the result, None when the result is empty; the
\* query has no ORDER BY, so which row comes first is the storage engine's choice
FirstRows(rows) == IF rows = {} THEN {None} ELSE rows

\* the tables no accessor of a specification touches
EmptyTables ==
  /\ User = {} /\ Journal = {} /\ JournalComment = {} /\ Group = {}
  /\ GroupDiscussion = {} /\ GroupDiscussionReply = {} /\ Book = {} /\ Error = {}
  /\ Chat = {}
  /\ autoInc = [t \in {"User", "Journal", "JournalComment", "Group", "GroupDiscussion"} |-> 1]

\* a mail session that has not started; nothing sent
NoMail == [pc |-> "idle", receiver |-> 0, attempts |-> 0, sent |-> 0]

\* a session in which no key is set: session.get(key) gives None
NoSession == [loginUser |-> None, captcha |-> None, resetPasswdAccount |-> None]

\* no image file, no mail traffic and no session key: the state outside the
\* image functions, the mail functions and the request handlers
NoIO ==
  /\ image = None /\ imwrite = None /\ smtp = NoMail
  /\ session = [s \in Sessions |-> NoSession]

(* ======================================================================= *)
(* Likes: Database.addJournalLike under concurrent requests                *)
(* ======================================================================= *)
LikeKeys == UserIDs \X JournalIDs

NoCall == [pc |-> "idle", authorID |-> 0, journalID |-> 0, ret |-> "none", later |-> FALSE]

\* JournalLike.query.filter_by(journalID=journalID).count()
getJournalLikeNum(journalID) ==
  LET RECURSIVE Sum(_)
      Sum(S) == IF S = {} THEN 0
                ELSE LET k == CHOOSE x \in S : TRUE
                     IN JournalLike[k] + Sum(S \ {k})
  IN Sum({k \in DOMAIN JournalLike : k[2] = journalID})

\* an existence test that never finds the row
LikeExists_Never(authorID, journalID) == FALSE

\* JournalLike.query.filter_by(journalID=journalID, authorID=authorID).first()
LikeExists(authorID, journalID) == JournalLike[<<authorID, journalID>>] > 0

\* a table without the composite primary key
PrimaryKeyViolation_None(authorID, journalID) == FALSE

\* PrimaryKeyConstraint('authorID', 'journalID'): the commit of a second row
\* with the same key is rejected by the storage engine (IntegrityError)
PrimaryKeyViolation(authorID, journalID) == JournalLike[<<authorID, journalID>>] > 0

\* addJournalLike, the existence query; when the row is there the call
\* returns False at once
LikeCheck(p, authorID, journalID) ==
  /\ request[p].pc \in {"idle", "done"}
  /\ calls < MaxCalls
  /\ calls' = calls + 1
  /\ request' = [request EXCEPT ![p] =
        IF LikeExists(authorID, journalID)
        THEN [pc |-> "done", authorID |-> authorID, journalID |-> journalID,
              ret |-> "False", later |-> <<authorID, journalID>> \in liked]
        ELSE [pc |-> "insert", authorID |-> authorID, journalID |-> journalID,
              ret |-> "none", later |-> <<authorID, journalID>> \in liked]]
  /\ UNCHANGED <<JournalLike, liked, tables, ret, registered, ioVars>>

\* addJournalLike, session.add(like); session.commit(); return True.
\* The commit raises IntegrityError when the key is already stored.
LikeInsert(p) ==
  /\ request[p].pc = "insert"
  /\ LET a == request[p].authorID
         j == request[p].journalID
     IN IF PrimaryKeyViolation(a, j)
        THEN /\ request' = [request EXCEPT ![p].pc = "done", ![p].ret = "IntegrityError"]
             /\ UNCHANGED <<JournalLike, liked>>
        ELSE /\ JournalLike' = [JournalLike EXCEPT ![<<a, j>>] = @ + 1]
             /\ request' = [request EXCEPT ![p].pc = "done", ![p].ret = "True"]
             /\ liked' = liked \cup {<<a, j>>}
  /\ UNCHANGED <<calls, tables, ret, registered, ioVars>>

InitLike ==
  /\ EmptyTables
  /\ ret = NoRet
  /\ JournalLike = [k \in LikeKeys |-> 0]
  /\ request = [p \in Procs |-> NoCall]
  /\ liked = {}
  /\ calls = 0
  /\ registered = <<>>
  /\ NoIO

NextLike ==
  \/ \E p \in Procs, a \in UserIDs, j \in JournalIDs : LikeCheck(p, a, j)
  \/ \E p \in Procs : LikeInsert(p)

SpecLike == InitLike /\ [][NextLike]_vars

(* C1: once addJournalLike(journal, user) has returned True, every later   *)
(* addJournalLike(journal, user) returns False and stores nothing: the     *)
(* like count of every journal is the same before and after the call.      *)
C1_SecondLikeRejected ==
  [][\A p \in Procs :
       (request'[p] # request[p] /\ request'[p].later)
         => /\ request'[p].pc = "done"
            /\ request'[p].ret = "False"
            /\ \A j \in JournalIDs : getJournalLikeNum(j)' = getJournalLikeNum(j)]_vars

C1_Witness ==
  \E p \in Procs : request[p].later /\ request[p].pc = "done" /\ request[p].ret = "False"

(* C2: the JournalLike table never holds two rows with the same            *)
(* (authorID, journalID), and no step lowers the like count of a journal.  *)
C2_OneLikePerPair ==
  /\ [](\A k \in LikeKeys : JournalLike[k] <= 1)
  /\ [][\A j \in JournalIDs : getJournalLikeNum(j)' >= getJournalLikeNum(j)]_vars

C2_Witness ==
  /\ \E p \in Procs : request[p].ret = "IntegrityError"
  /\ \E j \in JournalIDs : getJournalLikeNum(j) = 2

(* C3: every concurrent addJournalLike call on one pair ends with True or  *)
(* False, never with an error, and at most one of them with True.          *)
C3_ConcurrentLikesNoError ==
  /\ \A p \in Procs : request[p].pc = "done" => request[p].ret \in {"True", "False"}
  /\ \A p, q \in Procs :
       (/\ p # q
        /\ request[p].ret = "True" /\ request[q].ret = "True"
        /\ request[p].authorID = request[q].authorID)
         => request[p].journalID # request[q].journalID


(* ======================================================================= *)
(* Users, projections                                                      *)
(* ======================================================================= *)
\* werkzeug.security.generate_password_hash: a salted digest, never the
\* password itself; the salt is drawn at random by the library
generate_password_hash(password, salt) ==
  [salt |-> salt, digest |-> <<"digest", salt, password>>]

\* werkzeug.security.check_password_hash: a stored string that has not the
\* form method$salt$hash is rejected; otherwise the digest is recomputed with
\* the stored salt and compared
check_password_hash(pwhash, password) ==
  IF "digest" \in DOMAIN pwhash
  THEN pwhash.digest = <<"digest", pwhash.salt, password>>
  ELSE FALSE

\* extractUser(user, withPassword)
extractUser(user, withPassword) ==
  IF withPassword
  THEN [id |-> user.id, account |-> user.account, password |-> user.password]
  ELSE [id |-> user.id, account |-> user.account]

\* Database.getUser: None when no row has the id
getUser(userID) ==
  {IF info = None THEN None ELSE Value(extractUser(info, FALSE)) :
     info \in FirstRows({u \in User : u.id = userID})}

\* getUser(id)['account']: subscripting None raises TypeError
HasAccount(userID) == \E u \in User : u.id = userID
AccountOf(userID) == (CHOOSE u \in User : u.id = userID).account

extractJournalComment(comment) ==
  [id |-> comment.id, journalID |-> comment.journalID,
   authorID |-> comment.authorID, isRead |-> comment.isRead]

extractGroupDiscussion(groupDiscussion) ==
  [id |-> groupDiscussion.id, groupID |-> groupDiscussion.groupID,
   posterID |-> groupDiscussion.posterID, postTime |-> groupDiscussion.postTime,
   isRead |-> groupDiscussion.isRead]

extractGroupDiscussionReply(reply) ==
  [authorID |-> reply.authorID, discussionID |-> reply.discussionID,
   replyTime |-> reply.replyTime, isRead |-> reply.isRead]

extractChat(char) ==
  [id |-> char.id, senderID |-> char.senderID, receiverID |-> char.receiverID,
   isRead |-> char.isRead]

(* ======================================================================= *)
(* Notification aggregator and the accessors that feed it                  *)
(* ======================================================================= *)
Categories == {"journalComment", "groupDiscussion", "discussionReply", "chat"}

\* JournalComment.query.filter_by(authorID=userID, isRead=False)
UnreadJournalComments(userID) ==
  {c \in JournalComment : c.authorID = userID /\ c.isRead = FALSE}

\* GroupDiscussion.query.filter(groupID.in_(groups founded by userID), isRead == False)
UnreadGroupDiscussions(userID) ==
  LET groupID == {item.id : item \in {g \in Group : g.founderID = userID}}
  IN {d \in GroupDiscussion : d.groupID \in groupID /\ d.isRead = FALSE}

\* GroupDiscussionReply.query.filter(discussionID.in_(posted by userID), isRead == False)
UnreadDiscussionReplies(userID) ==
  LET discussionID == {item.id : item \in {d \in GroupDiscussion : d.posterID = userID}}
  IN {r \in GroupDiscussionReply : r.discussionID \in discussionID /\ r.isRead = FALSE}

\* Chat.query.filter_by(receiverID=userID, isRead=False)
UnreadChats(userID) == {c \in Chat : c.receiverID = userID /\ c.isRead = FALSE}

\* Database.getAllUnreadMessage: the four filtered lists, every record given
\* the "account" of its author, poster or sender by getUser(...)['account']
getAllUnreadMessage(userID) ==
  LET journalComments == {extractJournalComment(c) : c \in UnreadJournalComments(userID)}
      groupDiscussions == {extractGroupDiscussion(d) : d \in UnreadGroupDiscussions(userID)}
      discussionReplies == {extractGroupDiscussionReply(r) : r \in UnreadDiscussionReplies(userID)}
      chats == {extractChat(c) : c \in UnreadChats(userID)}
      looked == {c.authorID : c \in journalComments}
                  \cup {d.posterID : d \in groupDiscussions}
                  \cup {r.authorID : r \in discussionReplies}
                  \cup {c.senderID : c \in chats}
  IN IF \E id \in looked : ~HasAccount(id)
     THEN Raise("TypeError")
     ELSE Value([journalComment |->
                   {[item |-> c, account |-> AccountOf(c.authorID)] : c \in journalComments},
                 groupDiscussion |->
                   {[item |-> d, account |-> AccountOf(d.posterID)] : d \in groupDiscussions},
                 discussionReply |->
                   {[item |-> r, account |-> AccountOf(r.authorID)] : r \in discussionReplies},
                 chat |->
                   {[item |-> c, account |-> AccountOf(c.senderID)] : c \in chats}])

\* Database.getAllUnreadMessageNum: the same four filters, counted
getAllUnreadMessageNum(userID) ==
  Value([journalComment |-> Cardinality(UnreadJournalComments(userID)),
         groupDiscussion |-> Cardinality(UnreadGroupDiscussions(userID)),
         discussionReply |-> Cardinality(UnreadDiscussionReplies(userID)),
         chat |-> Cardinality(UnreadChats(userID))])

\* rows the accessors of this specification have inserted so far
MsgRows == (autoInc["JournalComment"] - 1) + (autoInc["GroupDiscussion"] - 1)
             + Cardinality(GroupDiscussionReply)

\* Database.addJournalComment(journalID, content, authorID, publishTime); returns True
addJournalComment(journalID, authorID) ==
  /\ MsgRows < MaxRows
  /\ JournalComment' = JournalComment \cup
       {[id |-> autoInc["JournalComment"], journalID |-> journalID,
         authorID |-> authorID, isRead |-> FALSE]}
  /\ autoInc' = [autoInc EXCEPT !["JournalComment"] = @ + 1]
  /\ UNCHANGED <<User, Journal, Group, GroupDiscussion, GroupDiscussionReply, Book, Error,
                 Chat, ret, likeVars, registered, ioVars>>

\* an update that marks the comments of every journal
MarkedJournalComments_Every(journalID) ==
  {[c EXCEPT !.isRead = TRUE] : c \in JournalComment}

\* JournalComment.query.filter_by(journalID=journalID).update({"isRead": True})
MarkedJournalComments(journalID) ==
  {IF c.journalID = journalID THEN [c EXCEPT !.isRead = TRUE] ELSE c : c \in JournalComment}

\* Database.markAllJournalCommentAsRead(journalID)
markAllJournalCommentAsRead(journalID) ==
  /\ JournalComment' = MarkedJournalComments(journalID)
  /\ UNCHANGED <<User, Journal, Group, GroupDiscussion, GroupDiscussionReply, Book, Error,
                 Chat, autoInc, ret, likeVars, registered, ioVars>>

\* an update that turns the flag of the group's discussions over
MarkedDiscussions_Toggle(groupID) ==
  {IF d.groupID = groupID THEN [d EXCEPT !.isRead = ~@] ELSE d : d \in GroupDiscussion}

\* GroupDiscussion.query.filter_by(groupID=groupID).update({"isRead": True})
MarkedDiscussions(groupID) ==
  {IF d.groupID = groupID THEN [d EXCEPT !.isRead = TRUE] ELSE d : d \in GroupDiscussion}

\* Database.markAllDiscussionAsRead(groupID)
markAllDiscussionAsRead(groupID) ==
  /\ GroupDiscussion' = MarkedDiscussions(groupID)
  /\ UNCHANGED <<User, Journal, JournalComment, Group, GroupDiscussionReply, Book, Error,
                 Chat, autoInc, ret, likeVars, registered, ioVars>>

\* GroupDiscussionReply.query.filter_by(discussionID=discussionID).update({"isRead": True})
MarkedDiscussionReplies(discussionID) ==
  {IF r.discussionID = discussionID THEN [r EXCEPT !.isRead = TRUE] ELSE r :
     r \in GroupDiscussionReply}

\* Database.markAllDiscussionReplyAsRead(discussionID)
markAllDiscussionReplyAsRead(discussionID) ==
  /\ GroupDiscussionReply' = MarkedDiscussionReplies(discussionID)
  /\ UNCHANGED <<User, Journal, JournalComment, Group, GroupDiscussion, Book, Error,
                 Chat, autoInc, ret, likeVars, registered, ioVars>>

\* the row GroupDiscussion(posterID, groupID, postTime, title, content) gets on insert
NewGroupDiscussion(posterID, groupID, postTime) ==
  [id |-> autoInc["GroupDiscussion"], posterID |-> posterID, groupID |-> groupID,
   postTime |-> postTime, isRead |-> FALSE]

\* writeDiscussion, POST: the logged-in user posts a discussion to the group
\* (db.addGroupDiscussion, then the redirect to the id it returned)
writeDiscussion(posterID, groupID, postTime) ==
  /\ MsgRows < MaxRows
  /\ GroupDiscussion' = GroupDiscussion \cup {NewGroupDiscussion(posterID, groupID, postTime)}
  /\ autoInc' = [autoInc EXCEPT !["GroupDiscussion"] = @ + 1]
  /\ UNCHANGED <<User, Journal, JournalComment, Group, GroupDiscussionReply, Book, Error,
                 Chat, ret, likeVars, registered, ioVars>>

\* Database.deleteGroupDiscussion(discussID); returns False when no row has the id
deleteGroupDiscussion(discussID) ==
  /\ GroupDiscussion' = GroupDiscussion \ {d \in GroupDiscussion : d.id = discussID}
  /\ UNCHANGED <<User, Journal, JournalComment, Group, GroupDiscussionReply, Book, Error,
                 Chat, autoInc, ret, likeVars, registered, ioVars>>

\* Database.addGroupDiscussionReply(discussionID, authorID, content, replyTime);
\* (authorID, discussionID, replyTime) is the primary key: the commit of a
\* second row with the same key raises IntegrityError and stores nothing
addGroupDiscussionReply(discussionID, authorID, replyTime) ==
  /\ MsgRows < MaxRows
  /\ IF \E r \in GroupDiscussionReply : /\ r.authorID = authorID
                                        /\ r.discussionID = discussionID
                                        /\ r.replyTime = replyTime
     THEN UNCHANGED GroupDiscussionReply
     ELSE GroupDiscussionReply' = GroupDiscussionReply \cup
               {[authorID |-> authorID, discussionID |-> discussionID,
                 replyTime |-> replyTime, isRead |-> FALSE]}
  /\ UNCHANGED <<User, Journal, JournalComment, Group, GroupDiscussion, Book, Error,
                 Chat, autoInc, ret, likeVars, registered, ioVars>>

\* a call of getAllUnreadMessage: it returns or raises, and stores nothing
GetAllUnreadMessage(userID) ==
  /\ getAllUnreadMessage(userID).kind \in {"value", "raise"}
  /\ UNCHANGED vars

\* a call of getAllUnreadMessageNum: it returns, and stores nothing
GetAllUnreadMessageNum(userID) ==
  /\ getAllUnreadMessageNum(userID).kind = "value"
  /\ UNCHANGED vars

\* ids a discussion may have been given so far
DiscussionIDs == 1..MaxRows

InitMsg ==
  /\ User = {[id |-> u, account |-> u, password |-> generate_password_hash(1, 1)] :
               u \in UserIDs}
  /\ Group = {[id |-> g, name |-> g, founderID |-> ((g - 1) % NumUsers) + 1,
               establishTime |-> 1] : g \in GroupIDs}
  /\ Chat = {[id |-> u, senderID |-> u, receiverID |-> (u % NumUsers) + 1,
              isRead |-> FALSE] : u \in UserIDs}
            \cup {[id |-> NumUsers + u, senderID |-> (u % NumUsers) + 1, receiverID |-> u,
                   isRead |-> TRUE] : u \in UserIDs}
  /\ Journal = {} /\ JournalComment = {} /\ GroupDiscussion = {}
  /\ GroupDiscussionReply = {} /\ Book = {} /\ Error = {}
  /\ autoInc = [t \in {"User", "Journal", "JournalComment", "Group", "GroupDiscussion"} |-> 1]
  /\ ret = NoRet
  /\ JournalLike = [k \in LikeKeys |-> 0]
  /\ request = [p \in Procs |-> NoCall]
  /\ liked = {}
  /\ calls = 0
  /\ registered = <<>>
  /\ NoIO

NextMsg ==
  \/ \E j \in JournalIDs, a \in UserIDs : addJournalComment(j, a)
  \/ \E j \in JournalIDs : markAllJournalCommentAsRead(j)
  \/ \E g \in GroupIDs : markAllDiscussionAsRead(g)
  \/ \E d \in DiscussionIDs : markAllDiscussionReplyAsRead(d)
  \/ \E u \in UserIDs, g \in GroupIDs, t \in Times : writeDiscussion(u, g, t)
  \/ \E d \in DiscussionIDs : deleteGroupDiscussion(d)
  \/ \E d \in DiscussionIDs, a \in UserIDs \cup {NoUser}, t \in Times :
       addGroupDiscussionReply(d, a, t)
  \/ \E u \in UserIDs : GetAllUnreadMessage(u)
  \/ \E u \in UserIDs : GetAllUnreadMessageNum(u)

SpecMsg == InitMsg /\ [][NextMsg]_vars


(* C4: for every user u and each of the four categories, the count of      *)
(* getAllUnreadMessageNum(u) equals the length of the list that            *)
(* getAllUnreadMessage(u) returns for the category.                        *)
C4_CountEqualsLength ==
  \A u \in UserIDs :
    LET messages == getAllUnreadMessage(u)
        nums == getAllUnreadMessageNum(u)
    IN /\ messages.kind = "value"
       /\ nums.kind = "value"
       /\ \A c \in Categories : nums.val[c] = Cardinality(messages.val[c])

(* C5: for every user u, getAllUnreadMessage(u) returns in each category   *)
(* exactly the unread rows addressed to u: comments written by u,          *)
(* discussions of groups u founded, replies to discussions u posted,       *)
(* chats u receives.                                                       *)
C5_ExactlyTheUnreadRows ==
  \A u \in UserIDs :
    LET messages == getAllUnreadMessage(u)
    IN /\ messages.kind = "value"
       /\ {x.item.id : x \in messages.val.journalComment}
            = {c.id : c \in {c \in JournalComment : c.authorID = u /\ ~c.isRead}}
       /\ {x.item.id : x \in messages.val.groupDiscussion}
            = {d.id : d \in {d \in GroupDiscussion :
                               /\ ~d.isRead
                               /\ \E g \in Group : g.id = d.groupID /\ g.founderID = u}}
       /\ {<<x.item.authorID, x.item.discussionID, x.item.replyTime>> :
             x \in messages.val.discussionReply}
            = {<<r.authorID, r.discussionID, r.replyTime>> :
                 r \in {r \in GroupDiscussionReply :
                          /\ ~r.isRead
                          /\ \E d \in GroupDiscussion :
                               d.id = r.discussionID /\ d.posterID = u}}
       /\ {x.item.id : x \in messages.val.chat}
            = {c.id : c \in {c \in Chat : c.receiverID = u /\ ~c.isRead}}

\* every record getAllUnreadMessage shows to a user is the projection of a
\* stored row that is unread
ShownAreUnreadRows ==
  \A u \in UserIDs :
    LET messages == getAllUnreadMessage(u)
    IN messages.kind = "value" =>
         /\ \A x \in messages.val.journalComment :
              \E c \in JournalComment : ~c.isRead /\ x.item = extractJournalComment(c)
         /\ \A x \in messages.val.groupDiscussion :
              \E d \in GroupDiscussion : ~d.isRead /\ x.item = extractGroupDiscussion(d)
         /\ \A x \in messages.val.discussionReply :
              \E r \in GroupDiscussionReply :
                ~r.isRead /\ x.item = extractGroupDiscussionReply(r)

(* C6: a step of markAllJournalCommentAsRead(j), markAllDiscussionAsRead(g) *)
(* or markAllDiscussionReplyAsRead(d) leaves no child of that parent        *)
(* unread and leaves every child of another parent as it was; and in every  *)
(* state getAllUnreadMessage shows a user only rows that are stored unread, *)
(* so it shows no child of the parent just marked.                          *)
C6_MarkAllRead ==
  /\ []ShownAreUnreadRows
  /\ [][/\ \A j \in JournalIDs : markAllJournalCommentAsRead(j) =>
             /\ \A c \in JournalComment' : c.journalID = j => c.isRead
             /\ {c \in JournalComment' : c.journalID # j}
                  = {c \in JournalComment : c.journalID # j}
        /\ \A g \in GroupIDs : markAllDiscussionAsRead(g) =>
             /\ \A d \in GroupDiscussion' : d.groupID = g => d.isRead
             /\ {d \in GroupDiscussion' : d.groupID # g}
                  = {d \in GroupDiscussion : d.groupID # g}
        /\ \A i \in DiscussionIDs : markAllDiscussionReplyAsRead(i) =>
             /\ \A r \in GroupDiscussionReply' : r.discussionID = i => r.isRead
             /\ {r \in GroupDiscussionReply' : r.discussionID # i}
                  = {r \in GroupDiscussionReply : r.discussionID # i}]_vars

C6_Witness ==
  \E c1, c2 \in JournalComment : c1.journalID # c2.journalID /\ c1.isRead /\ ~c2.isRead


(* ======================================================================= *)
(* Adders that return an id, and the journal content they store            *)
(* ======================================================================= *)
NumTitles == 2
MaxLineLen == 1
MaxLines == 2

\* titles of journals, names of groups
Titles == 1..NumTitles
\* the characters of a content line: a letter and the line feed
Chars == {"a", "LF"}
\* a string is the sequence of its characters
Lines == UNION {[1..n -> Chars] : n \in 0..MaxLineLen}
\* the content argument of addJournal: a list of lines
Contents == UNION {[1..n -> Lines] : n \in 0..MaxLines}

\* "\n".join(content)
RECURSIVE Join(_)
Join(content) ==
  IF Len(content) = 0 THEN <<>>
  ELSE IF Len(content) = 1 THEN content[1]
  ELSE content[1] \o <<"LF">> \o Join(Tail(content))

\* str.split("\n"): cut at every line feed; the empty string gives [""]
RECURSIVE Split(_)
Split(str) ==
  IF \A i \in 1..Len(str) : str[i] # "LF" THEN <<str>>
  ELSE LET i == CHOOSE i \in 1..Len(str) :
                  str[i] = "LF" /\ \A k \in 1..(i - 1) : str[k] # "LF"
       IN <<SubSeq(str, 1, i - 1)>> \o Split(SubSeq(str, i + 1, Len(str)))

\* extractJournal(journal, likeNum, commentNum)
extractJournal(journal, likeNum, commentNum) ==
  [id |-> journal.id, title |-> journal.title, firstParagraph |-> journal.firstParagraph,
   content |-> Split(journal.content), authorID |-> journal.authorID,
   likeNum |-> likeNum, commentNum |-> commentNum]

\* Database.getJournal: journal.id on the None that first() gives for a
\* missing id raises AttributeError
getJournal(journalID) ==
  {IF journal = None THEN Raise("AttributeError")
   ELSE Value(extractJournal(journal, getJournalLikeNum(journal.id),
                Cardinality({c \in JournalComment : c.journalID = journal.id}))) :
     journal \in FirstRows({j \in Journal : j.id = journalID})}

\* rows the adders of this specification have inserted so far
AddRows == (autoInc["Journal"] - 1) + (autoInc["Group"] - 1) + (autoInc["GroupDiscussion"] - 1)

\* Journal.query.filter_by(title=title, authorID=authorID)
JournalsByTitleAuthor(title, authorID) ==
  {j \in Journal : j.title = title /\ j.authorID = authorID}

\* Database.addJournal(title, content, publishTime, authorID, bookID):
\* content[0] of an empty list raises IndexError before anything is stored
addJournal(title, content, authorID) ==
  /\ AddRows < MaxRows
  /\ IF Len(content) = 0
     THEN /\ ret' = [op |-> "addJournal", arg |-> [id |-> 0, content |-> content],
                     res |-> Raise("IndexError")]
          /\ UNCHANGED <<Journal, autoInc>>
     ELSE /\ Journal' = Journal \cup
                {[id |-> autoInc["Journal"], title |-> title, firstParagraph |-> content[1],
                  content |-> Join(content), authorID |-> authorID]}
          /\ autoInc' = [autoInc EXCEPT !["Journal"] = @ + 1]
          /\ \E first \in FirstRows(JournalsByTitleAuthor(title, authorID)') :
               ret' = [op |-> "addJournal",
                       arg |-> [id |-> autoInc["Journal"], content |-> content],
                       res |-> Value(first.id)]
  /\ UNCHANGED <<User, JournalComment, Group, GroupDiscussion, GroupDiscussionReply, Book,
                 Error, Chat, likeVars, registered, ioVars>>

\* Group.query.filter_by(name=name, founderID=founderID, establishTime=establishTime)
GroupsByNameFounderTime(name, founderID, establishTime) ==
  {g \in Group : g.name = name /\ g.founderID = founderID /\ g.establishTime = establishTime}

\* Database.addGroup(name, description, founderID, establishTime): Group.name
\* is unique, the commit of a second group of the name raises IntegrityError
addGroup(name, founderID, establishTime) ==
  /\ AddRows < MaxRows
  /\ IF \E g \in Group : g.name = name
     THEN /\ ret' = [op |-> "addGroup", arg |-> [id |-> 0, content |-> <<>>],
                     res |-> Raise("IntegrityError")]
          /\ UNCHANGED <<Group, autoInc>>
     ELSE /\ Group' = Group \cup
                {[id |-> autoInc["Group"], name |-> name, founderID |-> founderID,
                  establishTime |-> establishTime]}
          /\ autoInc' = [autoInc EXCEPT !["Group"] = @ + 1]
          /\ \E first \in FirstRows(GroupsByNameFounderTime(name, founderID, establishTime)') :
               ret' = [op |-> "addGroup",
                       arg |-> [id |-> autoInc["Group"], content |-> <<>>],
                       res |-> Value(first.id)]
  /\ UNCHANGED <<User, Journal, JournalComment, GroupDiscussion, GroupDiscussionReply, Book,
                 Error, Chat, likeVars, registered, ioVars>>

\* GroupDiscussion.query.filter_by(posterID=posterID, groupID=groupID, postTime=postTime)
DiscussionsByPosterGroupTime(posterID, groupID, postTime) ==
  {d \in GroupDiscussion :
     d.posterID = posterID /\ d.groupID = groupID /\ d.postTime = postTime}

\* Database.addGroupDiscussion(posterID, groupID, postTime, title, content)
addGroupDiscussion(posterID, groupID, postTime) ==
  /\ AddRows < MaxRows
  /\ GroupDiscussion' = GroupDiscussion \cup {NewGroupDiscussion(posterID, groupID, postTime)}
  /\ autoInc' = [autoInc EXCEPT !["GroupDiscussion"] = @ + 1]
  /\ \E first \in FirstRows(DiscussionsByPosterGroupTime(posterID, groupID, postTime)') :
       ret' = [op |-> "addGroupDiscussion",
               arg |-> [id |-> autoInc["GroupDiscussion"], content |-> <<>>],
               res |-> Value(first.id)]
  /\ UNCHANGED <<User, Journal, JournalComment, Group, GroupDiscussionReply, Book,
                 Error, Chat, likeVars, registered, ioVars>>

\* a call of getJournal: it returns or raises, and stores nothing
GetJournal(journalID) ==
  /\ \E res \in getJournal(journalID) :
       ret' = [op |-> "getJournal", arg |-> [id |-> journalID, content |-> <<>>], res |-> res]
  /\ UNCHANGED <<tables, likeVars, registered, ioVars>>

InitAdd ==
  /\ EmptyTables
  /\ ret = NoRet
  /\ JournalLike = [k \in LikeKeys |-> 0]
  /\ request = [p \in Procs |-> NoCall]
  /\ liked = {}
  /\ calls = 0
  /\ registered = <<>>
  /\ NoIO

NextAdd ==
  \/ \E t \in Titles, c \in Contents, a \in UserIDs : addJournal(t, c, a)
  \/ \E n \in Titles, f \in UserIDs, t \in Times : addGroup(n, f, t)
  \/ \E u \in UserIDs, g \in GroupIDs, t \in Times : addGroupDiscussion(u, g, t)
  \/ \E j \in 1..MaxRows : GetJournal(j)

SpecAdd == InitAdd /\ [][NextAdd]_vars

Adders == {"addJournal", "addGroup", "addGroupDiscussion"}

(* C7: whenever addJournal, addGroup or addGroupDiscussion returns a value, *)
(* the value is the id of the row that this call inserted, also when an    *)
(* older row has the same title and author, or the same poster, group and  *)
(* post time.                                                              *)
C7_ReturnsNewID ==
  (ret.op \in Adders /\ ret.res.kind = "value") => ret.res.val = ret.arg.id

(* C8: after addJournal(title, L, ...) with a non-empty list L has returned *)
(* an id, getJournal of that id gives a journal whose firstParagraph is    *)
(* L[0] and whose content is L.                                            *)
C8_ContentRoundTrip ==
  (ret.op = "addJournal" /\ ret.res.kind = "value") =>
    \A journal \in getJournal(ret.res.val) :
      /\ journal.kind = "value"
      /\ journal.val.firstParagraph = ret.arg.content[1]
      /\ journal.val.content = ret.arg.content


(* ======================================================================= *)
(* Registration and login                                                  *)
(* ======================================================================= *)
NumAccounts == 2
NumPasswords == 2
NumSalts == 2
MaxUsers == 1

\* an account name: its letters, written in lower or in upper case
Accounts == [letters : 1..NumAccounts, upper : BOOLEAN]
Passwords == 1..NumPasswords
Salts == 1..NumSalts

\* Python's False
False == [kind |-> "False"]

\* Python's True
True == [kind |-> "True"]

\* the database is created with COLLATE utf8_general_ci: text columns
\* compare, and are unique, without regard to case
CollationKey(account) == account.letters

\* Database.getAllUserByAccount(account, withPasswd); the order of all() is
\* the storage engine's choice
getAllUserByAccount(account, withPasswd) ==
  {extractUser(info, withPasswd) :
     info \in {u \in User : CollationKey(u.account) = CollationKey(account)}}

\* a login that looks the account up and does not check the password
checkLogin_NoCheck(account, password) ==
  LET usersInfo == getAllUserByAccount(account, TRUE)
  IN IF usersInfo = {} THEN {False} ELSE {Value(info.id) : info \in usersInfo}

\* Database.checkLogin(account, password): the id of the first matching row
\* whose hash accepts the password, False when there is none
checkLogin(account, password) ==
  LET usersInfo == getAllUserByAccount(account, TRUE)
      accepted == {info \in usersInfo : check_password_hash(info.password, password)}
  IN IF usersInfo = {} THEN {False}
     ELSE IF accepted = {} THEN {False}
     ELSE {Value(info.id) : info \in accepted}

\* Database.addUser(account, password, email, telephone, role): User.account
\* is unique, the commit of a second user of the account raises IntegrityError
addUser(account, password, salt) ==
  /\ autoInc["User"] - 1 < MaxUsers
  /\ IF \E u \in User : CollationKey(u.account) = CollationKey(account)
     THEN /\ ret' = [op |-> "addUser", arg |-> [account |-> account, password |-> password],
                     res |-> Raise("IntegrityError")]
          /\ UNCHANGED <<User, autoInc, registered, ioVars>>
     ELSE /\ User' = User \cup
                {[id |-> autoInc["User"], account |-> account,
                  password |-> generate_password_hash(password, salt)]}
          /\ autoInc' = [autoInc EXCEPT !["User"] = @ + 1]
          /\ registered' = registered \o <<[account |-> account, password |-> password]>>
          /\ ret' = [op |-> "addUser", arg |-> [account |-> account, password |-> password],
                     res |-> Value(autoInc["User"])]
  /\ UNCHANGED <<Journal, JournalComment, Group, GroupDiscussion, GroupDiscussionReply, Book,
                 Error, Chat, likeVars, ioVars>>

\* a call of checkLogin: it returns an id or False, and stores nothing
CheckLogin(account, password) ==
  /\ \E res \in checkLogin(account, password) :
       ret' = [op |-> "checkLogin", arg |-> [account |-> account, password |-> password],
               res |-> res]
  /\ UNCHANGED <<tables, likeVars, registered, ioVars>>

InitUser ==
  /\ EmptyTables
  /\ ret = NoRet
  /\ JournalLike = [k \in LikeKeys |-> 0]
  /\ request = [p \in Procs |-> NoCall]
  /\ liked = {}
  /\ calls = 0
  /\ registered = <<>>
  /\ NoIO

NextUser ==
  \/ \E a \in Accounts, p \in Passwords, s \in Salts : addUser(a, p, s)
  \/ \E a \in Accounts, p \in Passwords : CheckLogin(a, p)

SpecUser == InitUser /\ [][NextUser]_vars

\* what checkLogin gives for the users registered so far: the id for the
\* registered password, False for every other password
LoginOfRegistered ==
  \A i \in DOMAIN registered :
    /\ checkLogin(registered[i].account, registered[i].password) = {Value(i)}
    /\ \A p \in Passwords \ {registered[i].password} :
         checkLogin(registered[i].account, p) = {False}

\* a call of checkLogin leaves every table as it was
LoginStoresNothing ==
  [][\A a \in Accounts, p \in Passwords :
       CheckLogin(a, p) => UNCHANGED <<tables, likeVars, registered, ioVars>>]_vars

(* C9: after addUser(account, password, ...) has returned id i,            *)
(* checkLogin(account, password) returns i and checkLogin(account, p)      *)
(* returns False for every other password p; checkLogin returns False for  *)
(* every account that was never registered; checkLogin stores nothing.     *)
C9_Login ==
  /\ LoginOfRegistered
  /\ \A a \in Accounts, p \in Passwords :
       (\A i \in DOMAIN registered : registered[i].account # a)
         => checkLogin(a, p) = {False}

(* C9, amended: as C9, with "never registered" read under the collation of *)
(* the database: checkLogin returns False for every account that differs   *)
(* from every registered account in more than case.                        *)
C9_LoginUpToCase ==
  /\ [](/\ LoginOfRegistered
        /\ \A a \in Accounts, p \in Passwords :
             (\A i \in DOMAIN registered :
                CollationKey(registered[i].account) # CollationKey(a))
               => checkLogin(a, p) = {False})
  /\ LoginStoresNothing

C9_Witness ==
  /\ ret.op = "checkLogin"
  /\ ret.res = False
  /\ \E i \in DOMAIN registered :
       /\ registered[i].account = ret.arg.account
       /\ registered[i].password # ret.arg.password
  /\ \E a \in Accounts, p \in Passwords :
       /\ \A i \in DOMAIN registered : registered[i].account # a
       /\ checkLogin(a, p) # {False}


(* ======================================================================= *)
(* Single-record accessors                                                 *)
(* ======================================================================= *)
NumRowIDs == 1

\* the ids a table may hold, and one id more that no table holds
RowIDs == 1..NumRowIDs
LookupIDs == 1..(NumRowIDs + 1)

\* extractBook(book)
extractBook(book) == [id |-> book.id, title |-> book.title]

\* extractGroup(group)
extractGroup(group) ==
  [id |-> group.id, name |-> group.name, establishTime |-> group.establishTime,
   founderID |-> group.founderID]

\* Database.getBook: extractBook reads book.id of the None that first()
\* gives for a missing id, which raises AttributeError
getBook(bookID) ==
  {IF book = None THEN Raise("AttributeError") ELSE Value(extractBook(book)) :
     book \in FirstRows({b \in Book : b.id = bookID})}

\* Database.getGroup: extractGroup(None) raises AttributeError
getGroup(groupID) ==
  {IF group = None THEN Raise("AttributeError") ELSE Value(extractGroup(group)) :
     group \in FirstRows({g \in Group : g.id = groupID})}

\* Database.getGroupDiscussion: extractGroupDiscussion(None) raises AttributeError
getGroupDiscussion(discussID) ==
  {IF discussion = None THEN Raise("AttributeError")
   ELSE Value(extractGroupDiscussion(discussion)) :
     discussion \in FirstRows({d \in GroupDiscussion : d.id = discussID})}

\* Database.getError: error.errorCode on None raises AttributeError
getError(errorCode) ==
  {IF error = None THEN Raise("AttributeError")
   ELSE Value([errorCode |-> error.errorCode, title |-> error.title]) :
     error \in FirstRows({e \in Error : e.errorCode = errorCode})}

\* a call of a single-record accessor: it returns or raises, and stores nothing
GetUser(userID) ==
  /\ \E res \in getUser(userID) :
       ret' = [op |-> "getUser", arg |-> [id |-> userID, content |-> <<>>], res |-> res]
  /\ UNCHANGED <<tables, likeVars, registered, ioVars>>

GetBook(bookID) ==
  /\ \E res \in getBook(bookID) :
       ret' = [op |-> "getBook", arg |-> [id |-> bookID, content |-> <<>>], res |-> res]
  /\ UNCHANGED <<tables, likeVars, registered, ioVars>>

GetGroup(groupID) ==
  /\ \E res \in getGroup(groupID) :
       ret' = [op |-> "getGroup", arg |-> [id |-> groupID, content |-> <<>>], res |-> res]
  /\ UNCHANGED <<tables, likeVars, registered, ioVars>>

GetGroupDiscussion(discussID) ==
  /\ \E res \in getGroupDiscussion(discussID) :
       ret' = [op |-> "getGroupDiscussion", arg |-> [id |-> discussID, content |-> <<>>],
               res |-> res]
  /\ UNCHANGED <<tables, likeVars, registered, ioVars>>

GetError(errorCode) ==
  /\ \E res \in getError(errorCode) :
       ret' = [op |-> "getError", arg |-> [id |-> errorCode, content |-> <<>>], res |-> res]
  /\ UNCHANGED <<tables, likeVars, registered, ioVars>>

\* any database state: every table holds some of the rows with ids in RowIDs
InitGet ==
  /\ User \in SUBSET {[id |-> i, account |-> i, password |-> generate_password_hash(1, 1)] :
                        i \in RowIDs}
  /\ Journal \in SUBSET {[id |-> i, title |-> 1, firstParagraph |-> <<"a">>,
                          content |-> <<"a">>, authorID |-> 1] : i \in RowIDs}
  /\ Book \in SUBSET {[id |-> i, title |-> 1] : i \in RowIDs}
  /\ Group \in SUBSET {[id |-> i, name |-> i, founderID |-> 1, establishTime |-> 1] :
                         i \in RowIDs}
  /\ GroupDiscussion \in SUBSET {[id |-> i, posterID |-> 1, groupID |-> 1, postTime |-> 1,
                                  isRead |-> FALSE] : i \in RowIDs}
  /\ Error \in SUBSET {[errorCode |-> i, title |-> 1] : i \in RowIDs}
  /\ JournalComment = {} /\ GroupDiscussionReply = {} /\ Chat = {}
  /\ autoInc = [t \in {"User", "Journal", "JournalComment", "Group", "GroupDiscussion"} |->
                  NumRowIDs + 1]
  /\ ret = NoRet
  /\ JournalLike = [k \in LikeKeys |-> 0]
  /\ request = [p \in Procs |-> NoCall]
  /\ liked = {}
  /\ calls = 0
  /\ registered = <<>>
  /\ NoIO

NextGet ==
  \/ \E i \in LookupIDs : GetUser(i)
  \/ \E i \in LookupIDs : GetJournal(i)
  \/ \E i \in LookupIDs : GetBook(i)
  \/ \E i \in LookupIDs : GetGroup(i)
  \/ \E i \in LookupIDs : GetGroupDiscussion(i)
  \/ \E i \in LookupIDs : GetError(i)

SpecGet == InitGet /\ [][NextGet]_vars

\* the ids that have a row in the table the accessor reads
StoredIDs(op) ==
  CASE op = "getUser" -> {u.id : u \in User}
    [] op = "getJournal" -> {j.id : j \in Journal}
    [] op = "getBook" -> {b.id : b \in Book}
    [] op = "getGroup" -> {g.id : g \in Group}
    [] op = "getGroupDiscussion" -> {d.id : d \in GroupDiscussion}
    [] op = "getError" -> {e.errorCode : e \in Error}

Getters == {"getUser", "getJournal", "getBook", "getGroup", "getGroupDiscussion", "getError"}

(* C10: getUser, getJournal, getBook, getGroup, getGroupDiscussion and      *)
(* getError, called with an id that has no row, return None and raise      *)
(* nothing.                                                                *)
C10_MissingIsNone ==
  (ret.op \in Getters /\ ret.arg.id \notin StoredIDs(ret.op)) => ret.res = None


(* ======================================================================= *)
(* modifyUser, modifyBook, modifyGroup                                     *)
(* ======================================================================= *)
NumSignatures == 1

\* values of the text columns that are not unique (0: the value stored at first)
Signatures == 1..NumSignatures

\* the keyword arguments of a call: a function from the keys passed to their values
Kw(pairs) == [k \in {p[1] : p \in pairs} |-> (CHOOSE p \in pairs : p[1] = k)[2]]

\* a key that is left out, or passed with one of the values
Optional(key, values) == {{}} \cup {{<<key, v>>} : v \in values}

\* for key in kwargs: if hasattr(entity, key): setattr(entity, key, kwargs[key]).
\* The stored fields of the entity are its columns; a key that names no
\* attribute is skipped.
SetAttrs(entity, kwargs) ==
  [f \in DOMAIN entity |-> IF f \in DOMAIN kwargs THEN kwargs[f] ELSE entity[f]]

\* unique=True on User.account: another row holds the account (compared
\* under the collation of the database)
AccountTaken(rows, user) ==
  \E u \in rows : u.id # user.id /\ CollationKey(u.account) = CollationKey(user.account)

\* Database.modifyUser(userID, **kwargs)
modifyUser(userID, kwargs) ==
  /\ \E user \in FirstRows({u \in User : u.id = userID}) :
       IF user = None
       THEN /\ ret' = [op |-> "modifyUser", arg |-> [id |-> userID, kwargs |-> kwargs],
                       res |-> False]
            /\ UNCHANGED User
       ELSE IF AccountTaken(User, SetAttrs(user, kwargs))
       THEN /\ ret' = [op |-> "modifyUser", arg |-> [id |-> userID, kwargs |-> kwargs],
                       res |-> Raise("IntegrityError")]
            /\ UNCHANGED User
       ELSE /\ User' = (User \ {user}) \cup {SetAttrs(user, kwargs)}
            /\ ret' = [op |-> "modifyUser", arg |-> [id |-> userID, kwargs |-> kwargs],
                       res |-> True]
  /\ UNCHANGED <<Journal, JournalComment, Group, GroupDiscussion, GroupDiscussionReply, Book,
                 Error, Chat, autoInc, likeVars, registered, ioVars>>

\* Database.modifyBook(bookID, **kwargs); Book.isbn is unique
modifyBook(bookID, kwargs) ==
  /\ \E book \in FirstRows({b \in Book : b.id = bookID}) :
       IF book = None
       THEN /\ ret' = [op |-> "modifyBook", arg |-> [id |-> bookID, kwargs |-> kwargs],
                       res |-> False]
            /\ UNCHANGED Book
       ELSE IF \E b \in Book : b.id # book.id /\ b.isbn = SetAttrs(book, kwargs).isbn
       THEN /\ ret' = [op |-> "modifyBook", arg |-> [id |-> bookID, kwargs |-> kwargs],
                       res |-> Raise("IntegrityError")]
            /\ UNCHANGED Book
       ELSE /\ Book' = (Book \ {book}) \cup {SetAttrs(book, kwargs)}
            /\ ret' = [op |-> "modifyBook", arg |-> [id |-> bookID, kwargs |-> kwargs],
                       res |-> True]
  /\ UNCHANGED <<User, Journal, JournalComment, Group, GroupDiscussion, GroupDiscussionReply,
                 Error, Chat, autoInc, likeVars, registered, ioVars>>

\* Database.modifyGroup(groupID, **kwargs); Group.name is unique
modifyGroup(groupID, kwargs) ==
  /\ \E group \in FirstRows({g \in Group : g.id = groupID}) :
       IF group = None
       THEN /\ ret' = [op |-> "modifyGroup", arg |-> [id |-> groupID, kwargs |-> kwargs],
                       res |-> False]
            /\ UNCHANGED Group
       ELSE IF \E g \in Group : g.id # group.id /\ g.name = SetAttrs(group, kwargs).name
       THEN /\ ret' = [op |-> "modifyGroup", arg |-> [id |-> groupID, kwargs |-> kwargs],
                       res |-> Raise("IntegrityError")]
            /\ UNCHANGED Group
       ELSE /\ Group' = (Group \ {group}) \cup {SetAttrs(group, kwargs)}
            /\ ret' = [op |-> "modifyGroup", arg |-> [id |-> groupID, kwargs |-> kwargs],
                       res |-> True]
  /\ UNCHANGED <<User, Journal, JournalComment, GroupDiscussion, GroupDiscussionReply, Book,
                 Error, Chat, autoInc, likeVars, registered, ioVars>>

\* the ids of the stored rows, and one id more that no row has
ModifyIDs == 1..MaxRows
ModifyLookupIDs == 1..(MaxRows + 1)

\* the keyword arguments drawn for the three accessors: columns of the
\* entity, and "nickname", which no entity has
UserKwargs ==
  {Kw(a \cup g \cup n) : a \in Optional("account", Accounts),
                         g \in Optional("signature", Signatures),
                         n \in Optional("nickname", Signatures)}
BookKwargs ==
  {Kw(i \cup t \cup n) : i \in Optional("isbn", ModifyIDs),
                         t \in Optional("title", Signatures),
                         n \in Optional("nickname", Signatures)}
GroupKwargs ==
  {Kw(m \cup d \cup n) : m \in Optional("name", ModifyIDs),
                         d \in Optional("description", Signatures),
                         n \in Optional("nickname", Signatures)}

\* a database in which one of the three tables holds rows
InitModify ==
  /\ \E populated \in {"User", "Book", "Group"} :
       /\ User = IF populated = "User"
                 THEN {[id |-> i, account |-> [letters |-> i, upper |-> FALSE],
                        password |-> generate_password_hash(1, 1), signature |-> 0] :
                         i \in ModifyIDs}
                 ELSE {}
       /\ Book = IF populated = "Book"
                 THEN {[id |-> i, isbn |-> i, title |-> 0] : i \in ModifyIDs}
                 ELSE {}
       /\ Group = IF populated = "Group"
                  THEN {[id |-> i, name |-> i, founderID |-> 1, establishTime |-> 1,
                         description |-> 0] : i \in ModifyIDs}
                  ELSE {}
  /\ Journal = {} /\ JournalComment = {} /\ GroupDiscussion = {}
  /\ GroupDiscussionReply = {} /\ Error = {} /\ Chat = {}
  /\ autoInc = [t \in {"User", "Journal", "JournalComment", "Group", "GroupDiscussion"} |->
                  MaxRows + 1]
  /\ ret = NoRet
  /\ JournalLike = [k \in LikeKeys |-> 0]
  /\ request = [p \in Procs |-> NoCall]
  /\ liked = {}
  /\ calls = 0
  /\ registered = <<>>
  /\ NoIO

NextModify ==
  \/ \E i \in ModifyLookupIDs, kwargs \in UserKwargs : modifyUser(i, kwargs)
  \/ \E i \in ModifyLookupIDs, kwargs \in BookKwargs : modifyBook(i, kwargs)
  \/ \E i \in ModifyLookupIDs, kwargs \in GroupKwargs : modifyGroup(i, kwargs)

SpecModify == InitModify /\ [][NextModify]_vars

\* what the call is to do to the table: nothing and False when no row has
\* the id; otherwise True, the row of the id gets exactly the passed values
\* of its own fields, and the other rows stay
ModifyEffect(old, new, id, kwargs, res) ==
  IF \A e \in old : e.id # id
  THEN res = False /\ new = old
  ELSE /\ res = True
       /\ \E e \in old, e2 \in new :
            /\ e.id = id /\ e2.id = id
            /\ DOMAIN e2 = DOMAIN e
            /\ \A f \in DOMAIN e : e2[f] = IF f \in DOMAIN kwargs THEN kwargs[f] ELSE e[f]
            /\ new \ {e2} = old \ {e}

(* C11: a step of modifyUser, modifyBook or modifyGroup returns False and  *)
(* changes nothing when no record has the id; otherwise it returns True,   *)
(* sets exactly the passed keys that are fields of the record, ignores the *)
(* other keys and leaves the other fields and the other records as they    *)
(* were.                                                                   *)
C11_ModifyFrame ==
  [][/\ \A i \in ModifyLookupIDs, kwargs \in UserKwargs :
          modifyUser(i, kwargs) => ModifyEffect(User, User', i, kwargs, ret'.res)
     /\ \A i \in ModifyLookupIDs, kwargs \in BookKwargs :
          modifyBook(i, kwargs) => ModifyEffect(Book, Book', i, kwargs, ret'.res)
     /\ \A i \in ModifyLookupIDs, kwargs \in GroupKwargs :
          modifyGroup(i, kwargs) => ModifyEffect(Group, Group', i, kwargs, ret'.res)]_vars


(* ======================================================================= *)
(* Passwords set after registration                                        *)
(* ======================================================================= *)
\* the Python string of a password, as it is when stored unhashed
PlainText(password) == [text |-> password]

\* Database.modifyUserByAccount(account, password): user.password on the None
\* that first() gives for an unknown account raises AttributeError
modifyUserByAccount(account, password, salt) ==
  /\ \E user \in FirstRows({u \in User : CollationKey(u.account) = CollationKey(account)}) :
       IF user = None
       THEN /\ ret' = [op |-> "modifyUserByAccount",
                       arg |-> [account |-> account, password |-> password],
                       res |-> Raise("AttributeError")]
            /\ UNCHANGED User
       ELSE /\ User' = (User \ {user}) \cup
                         {[user EXCEPT !.password = generate_password_hash(password, salt)]}
            /\ ret' = [op |-> "modifyUserByAccount",
                       arg |-> [account |-> account, password |-> password],
                       res |-> None]
  /\ UNCHANGED <<Journal, JournalComment, Group, GroupDiscussion, GroupDiscussionReply, Book,
                 Error, Chat, autoInc, likeVars, registered, ioVars>>

\* modifyUser called with a password
PasswordKwargs == {Kw({<<"password", PlainText(p)>>}) : p \in Passwords}

InitPassword ==
  /\ User = {[id |-> i, account |-> [letters |-> i, upper |-> FALSE],
              password |-> generate_password_hash(1, 1), signature |-> 0] : i \in 1..MaxUsers}
  /\ Book = {} /\ Group = {}
  /\ Journal = {} /\ JournalComment = {} /\ GroupDiscussion = {}
  /\ GroupDiscussionReply = {} /\ Error = {} /\ Chat = {}
  /\ autoInc = [t \in {"User", "Journal", "JournalComment", "Group", "GroupDiscussion"} |->
                  MaxRows + 1]
  /\ ret = NoRet
  /\ JournalLike = [k \in LikeKeys |-> 0]
  /\ request = [p \in Procs |-> NoCall]
  /\ liked = {}
  /\ calls = 0
  /\ registered = <<>>
  /\ NoIO

NextPassword ==
  \/ \E i \in ModifyLookupIDs, kwargs \in PasswordKwargs : modifyUser(i, kwargs)
  \/ \E a \in Accounts, p \in Passwords, t \in Salts : modifyUserByAccount(a, p, t)
  \/ \E a \in Accounts, p \in Passwords : CheckLogin(a, p)

SpecPassword == InitPassword /\ [][NextPassword]_vars

(* C12: after modifyUser(id, password=p) has returned True, the stored     *)
(* password of the user is a hash of p, not p itself, and                  *)
(* checkLogin(account, p) returns the user's id.                           *)
C12_ModifyUserHashes ==
  (ret.op = "modifyUser" /\ ret.res = True /\ "password" \in DOMAIN ret.arg.kwargs) =>
    \A u \in User :
      u.id = ret.arg.id =>
        /\ u.password # ret.arg.kwargs.password
        /\ check_password_hash(u.password, ret.arg.kwargs.password.text)
        /\ checkLogin(u.account, ret.arg.kwargs.password.text) = {Value(u.id)}

(* ======================================================================= *)
(* Registration and profile edits by concurrent requests                   *)
(* ======================================================================= *)
NoRequest == [pc |-> "idle", route |-> "none", account |-> 0, password |-> 0, salt |-> 0,
              response |-> "none"]

\* Database.getUserByAccount(account): the first row of the account, or None
getUserByAccount(account, withPasswd) ==
  {IF info = None THEN None ELSE Value(extractUser(info, withPasswd)) :
     info \in FirstRows({u \in User : CollationKey(u.account) = CollationKey(account)})}

\* app.register up to the test of db.getUserByAccount(account): an existing
\* account is answered with the redirect to the login form
RegisterCheck(p, account, password, salt) ==
  /\ request[p].pc \in {"idle", "done"}
  /\ calls < MaxCalls
  /\ calls' = calls + 1
  /\ \E found \in getUserByAccount(account, FALSE) :
       request' = [request EXCEPT ![p] =
         IF found # None
         THEN [pc |-> "done", route |-> "register", account |-> account,
               password |-> password, salt |-> salt, response |-> "redirect"]
         ELSE [pc |-> "addUser", route |-> "register", account |-> account,
               password |-> password, salt |-> salt, response |-> "none"]]
  /\ UNCHANGED <<JournalLike, liked, tables, ret, registered, ioVars>>

\* app.register, db.addUser(...) and the redirect: no handler around the
\* commit, which raises IntegrityError when the account is stored by now
RegisterAddUser(p) ==
  /\ request[p].pc = "addUser"
  /\ IF \E u \in User : CollationKey(u.account) = CollationKey(request[p].account)
     THEN /\ request' = [request EXCEPT ![p].pc = "done", ![p].response = "IntegrityError"]
          /\ UNCHANGED <<User, autoInc>>
     ELSE /\ User' = User \cup
                {[id |-> autoInc["User"], account |-> request[p].account,
                  password |-> generate_password_hash(request[p].password, request[p].salt),
                  signature |-> 0]}
          /\ autoInc' = [autoInc EXCEPT !["User"] = @ + 1]
          /\ request' = [request EXCEPT ![p].pc = "done", ![p].response = "redirect"]
  /\ UNCHANGED <<Journal, JournalComment, Group, GroupDiscussion, GroupDiscussionReply, Book,
                 Error, Chat, ret, JournalLike, liked, calls, registered, ioVars>>

\* app.editProfile, POST by the logged-in user userID without a photo:
\* db.modifyUser(userID, account=account, signature=signature, ...), no
\* handler around it, then the redirect to the profile
EditProfile(p, userID, account, signature) ==
  /\ request[p].pc \in {"idle", "done"}
  /\ calls < MaxCalls
  /\ calls' = calls + 1
  /\ \E user \in {u \in User : u.id = userID} :
       LET kwargs == Kw({<<"account", account>>, <<"signature", signature>>})
           new == SetAttrs(user, kwargs)
       IN IF AccountTaken(User, new)
          THEN /\ request' = [request EXCEPT ![p] =
                    [pc |-> "done", route |-> "editProfile", account |-> account,
                     password |-> 0, salt |-> 0, response |-> "IntegrityError"]]
               /\ UNCHANGED User
          ELSE /\ User' = (User \ {user}) \cup {new}
               /\ request' = [request EXCEPT ![p] =
                    [pc |-> "done", route |-> "editProfile", account |-> account,
                     password |-> 0, salt |-> 0, response |-> "redirect"]]
  /\ UNCHANGED <<Journal, JournalComment, Group, GroupDiscussion, GroupDiscussionReply, Book,
                 Error, Chat, autoInc, ret, JournalLike, liked, registered, ioVars>>

InitRegister ==
  /\ EmptyTables
  /\ ret = NoRet
  /\ JournalLike = [k \in LikeKeys |-> 0]
  /\ request = [p \in Procs |-> NoRequest]
  /\ liked = {}
  /\ calls = 0
  /\ registered = <<>>
  /\ NoIO

NextRegister ==
  \/ \E p \in Procs, a \in Accounts, w \in Passwords, t \in Salts : RegisterCheck(p, a, w, t)
  \/ \E p \in Procs : RegisterAddUser(p)
  \/ \E p \in Procs, i \in ModifyIDs, a \in Accounts, g \in Signatures :
       EditProfile(p, i, a, g)

SpecRegister == InitRegister /\ [][NextRegister]_vars

\* no two users hold the same account
AccountsUnique ==
  \A u, v \in User : CollationKey(u.account) = CollationKey(v.account) => u = v

\* a registration that finds its account stored creates no user and redirects
RegisterExistingRedirects ==
  \A p \in Procs :
    (/\ request'[p] # request[p]
     /\ request[p].pc # "addUser"
     /\ request'[p].route = "register"
     /\ \E u \in User : CollationKey(u.account) = CollationKey(request'[p].account))
      => /\ request'[p].pc = "done"
         /\ request'[p].response = "redirect"
         /\ User' = User

(* C13: user accounts are unique after any interleaving of register and    *)
(* editProfile requests; a registration of an existing account creates no  *)
(* user and redirects; and no request ends in an unhandled error: a request *)
(* that would create a duplicate account completes and changes no user.    *)
C13_UniqueWithoutError ==
  /\ [](AccountsUnique /\ \A p \in Procs : request[p].response # "IntegrityError")
  /\ [][RegisterExistingRedirects]_vars

(* ======================================================================= *)
(* Mail: sending the captcha                                               *)
(* ======================================================================= *)
NumReceivers == 2
Receivers == 1..NumReceivers

\* smtplib's exceptions derive from SMTPException; what the socket layer
\* raises while SMTP_SSL(host, port) connects does not
SMTPExceptions == {"SMTPConnectError", "SMTPAuthenticationError", "SMTPRecipientsRefused",
                   "SMTPServerDisconnected"}
ConnectErrors == {"ConnectionRefusedError", "TimeoutError", "gaierror", "SMTPConnectError"}
LoginErrors == {"SMTPAuthenticationError", "SMTPServerDisconnected"}
SendmailErrors == {"SMTPRecipientsRefused", "SMTPServerDisconnected"}
QuitErrors == {"SMTPServerDisconnected"}

\* Mail._send, except SMTPException as e: print(e); return False. Every
\* other exception leaves _send and sendCaptcha
Handled(exc) == IF exc \in SMTPExceptions THEN False ELSE Raise(exc)

\* the end of a call of sendCaptcha with the result res
MailDone(receiver, res) ==
  /\ ret' = [op |-> "sendCaptcha", arg |-> [receiver |-> receiver], res |-> res]
  /\ smtp' = [smtp EXCEPT !.pc = "done"]

\* Mail.sendCaptcha(receiver, captcha) up to smtpObj = SMTP_SSL(host, port)
Connect(receiver, outcome) ==
  /\ smtp.pc \in {"idle", "done"}
  /\ calls < MaxCalls
  /\ calls' = calls + 1
  /\ IF outcome = "ok"
     THEN /\ smtp' = [smtp EXCEPT !.pc = "login", !.receiver = receiver, !.attempts = 1]
          /\ UNCHANGED ret
     ELSE /\ smtp' = [smtp EXCEPT !.pc = "done", !.receiver = receiver, !.attempts = 1]
          /\ ret' = [op |-> "sendCaptcha", arg |-> [receiver |-> receiver],
                     res |-> Handled(outcome)]
  /\ UNCHANGED <<tables, JournalLike, request, liked, registered, image, imwrite, session>>

\* smtpObj.login(username, password)
Login(outcome) ==
  /\ smtp.pc = "login"
  /\ IF outcome = "ok"
     THEN smtp' = [smtp EXCEPT !.pc = "sendmail"] /\ UNCHANGED ret
     ELSE MailDone(smtp.receiver, Handled(outcome))
  /\ UNCHANGED <<tables, likeVars, registered, image, imwrite, session>>

\* smtpObj.sendmail(sender, [receivers], message)
Sendmail(outcome) ==
  /\ smtp.pc = "sendmail"
  /\ IF outcome = "ok"
     THEN smtp' = [smtp EXCEPT !.pc = "quit", !.sent = @ + 1] /\ UNCHANGED ret
     ELSE MailDone(smtp.receiver, Handled(outcome))
  /\ UNCHANGED <<tables, likeVars, registered, image, imwrite, session>>

\* smtpObj.quit(); return True
Quit(outcome) ==
  /\ smtp.pc = "quit"
  /\ MailDone(smtp.receiver, IF outcome = "ok" THEN True ELSE Handled(outcome))
  /\ UNCHANGED <<tables, likeVars, registered, image, imwrite, session>>

InitMail ==
  /\ EmptyTables
  /\ ret = NoRet
  /\ JournalLike = [k \in LikeKeys |-> 0]
  /\ request = [p \in Procs |-> NoCall]
  /\ liked = {}
  /\ calls = 0
  /\ registered = <<>>
  /\ NoIO

NextMail ==
  \/ \E r \in Receivers, o \in {"ok"} \cup ConnectErrors : Connect(r, o)
  \/ \E o \in {"ok"} \cup LoginErrors : Login(o)
  \/ \E o \in {"ok"} \cup SendmailErrors : Sendmail(o)
  \/ \E o \in {"ok"} \cup QuitErrors : Quit(o)

SpecMail == InitMail /\ [][NextMail]_vars

(* C14: every call of Mail.sendCaptcha returns a boolean, False for every  *)
(* transport failure and never an exception, after exactly one attempt to  *)
(* send.                                                                   *)
C14_SendCaptchaReturnsBool ==
  ret.op = "sendCaptcha" => (ret.res \in {True, False} /\ smtp.attempts = 1)

(* ======================================================================= *)
(* Img: cropping the stored image file                                     *)
(* ======================================================================= *)
MaxSide == 3
MaxRatio == 3

Sides == 1..MaxSide
\* requested sizes: none, a size that fits, a size beyond every source
Sizes == 0..(MaxSide + 1)
Ratios == 1..MaxRatio
HAligns == {"left", "center", "right", "middle"}
VAligns == {"top", "center", "bottom", "middle"}

\* img[a:b] along an axis of length n: a negative index counts from the end,
\* and both ends are clipped to the axis
Slice(n, a, b) ==
  LET Index(i) == IF i < 0 THEN (IF i + n < 0 THEN 0 ELSE i + n)
                  ELSE IF i < n THEN i ELSE n
      start == Index(a)
      stop == Index(b)
  IN [offset |-> start, length |-> IF stop > start THEN stop - start ELSE 0]

\* what a call leaves: its result and the window of the image it wrote
Outcome(res, write) == [res |-> res, write |-> write]

\* img = img[rows, columns]; cv2.imwrite(filePath, img); return True.
\* imwrite refuses an empty image with cv2.error
Write(originWidth, originHeight, rows, columns) ==
  LET h == Slice(originHeight, rows[1], rows[2])
      w == Slice(originWidth, columns[1], columns[2])
  IN IF h.length = 0 \/ w.length = 0
     THEN Outcome(Raise("cv2.error"), None)
     ELSE Outcome(True, [left |-> w.offset, top |-> h.offset,
                         width |-> w.length, height |-> h.length])

\* a size test that looks at the width only
ExceedsSource_WidthOnly(originWidth, originHeight, width, height) ==
  width > originWidth

\* cropImage, the test of the requested size against the source
ExceedsSource(originWidth, originHeight, width, height) ==
  width > originWidth \/ height > originHeight

\* a chain over hAlign that takes every other value for "left"
widthRange_Lenient(originWidth, width, hAlign) ==
  IF hAlign = "center"
  THEN Value(<<(originWidth - width) \div 2, (originWidth + width) \div 2>>)
  ELSE IF hAlign = "right" THEN Value(<<originWidth - width, originWidth>>)
  ELSE Value(<<0, width>>)

\* cropImage, the chain over hAlign
widthRange(originWidth, width, hAlign) ==
  IF hAlign = "left" THEN Value(<<0, width>>)
  ELSE IF hAlign = "center"
       THEN Value(<<(originWidth - width) \div 2, (originWidth + width) \div 2>>)
  ELSE IF hAlign = "right" THEN Value(<<originWidth - width, originWidth>>)
  ELSE Raise("ValueError")

\* a chain over vAlign whose centered window starts one row too low
height_range_Low(originHeight, height, vAlign) ==
  IF vAlign = "top" THEN Value(<<0, height>>)
  ELSE IF vAlign = "center"
       THEN Value(<<(originHeight - height + 1) \div 2, (originHeight + height + 1) \div 2>>)
  ELSE IF vAlign = "bottom" THEN Value(<<originHeight - height, originHeight>>)
  ELSE Raise("ValueError")

\* cropImage, the chain over vAlign
height_range(originHeight, height, vAlign) ==
  IF vAlign = "top" THEN Value(<<0, height>>)
  ELSE IF vAlign = "center"
       THEN Value(<<(originHeight - height) \div 2, (originHeight + height) \div 2>>)
  ELSE IF vAlign = "bottom" THEN Value(<<originHeight - height, originHeight>>)
  ELSE Raise("ValueError")

\* Img.cropImage(filePath, width, height, hAlign, vAlign) on the file img
cropImage(img, width, height, hAlign, vAlign) ==
  IF img = None THEN Outcome(Raise("FileNotFoundError"), None)
  ELSE IF ExceedsSource(img.width, img.height, width, height) THEN Outcome(False, None)
  ELSE LET columns == widthRange(img.width, width, hAlign)
           rows == height_range(img.height, height, vAlign)
       IN IF columns.kind = "raise" THEN Outcome(columns, None)
          ELSE IF rows.kind = "raise" THEN Outcome(rows, None)
          ELSE Write(img.width, img.height, rows.val, columns.val)

\* Img.cropImageByScale(filePath, width, height) on the file img. The test
\* originWidth / originHeight > width / height is exact at these sizes
cropImageByScale(img, width, height) ==
  IF img = None THEN Outcome(Raise("FileNotFoundError"), None)
  ELSE LET wider == img.width * height > width * img.height
           newWidth == IF wider THEN (img.height * width) \div height ELSE img.width
           newHeight == IF wider THEN img.height ELSE (img.width * height) \div width
       IN Write(img.width, img.height,
                <<(img.height - newHeight) \div 2, (img.height + newHeight) \div 2>>,
                <<(img.width - newWidth) \div 2, (img.width + newWidth) \div 2>>)

\* a cropImageSquare that writes the file of a square image as well
cropImageSquare_Rewrite(img) ==
  IF img = None THEN Outcome(Raise("FileNotFoundError"), None)
  ELSE LET edgeLength == IF img.width < img.height THEN img.width ELSE img.height
       IN IF img.width > img.height
          THEN Write(img.width, img.height, <<0, img.height>>,
                     <<(img.width - edgeLength) \div 2, (img.width + edgeLength) \div 2>>)
          ELSE Write(img.width, img.height,
                     <<(img.height - edgeLength) \div 2, (img.height + edgeLength) \div 2>>,
                     <<0, img.width>>)

\* Img.cropImageSquare(filePath) on the file img
cropImageSquare(img) ==
  IF img = None THEN Outcome(Raise("FileNotFoundError"), None)
  ELSE IF img.width = img.height THEN Outcome(True, None)
  ELSE LET edgeLength == IF img.width < img.height THEN img.width ELSE img.height
       IN IF img.width > img.height
          THEN Write(img.width, img.height, <<0, img.height>>,
                     <<(img.width - edgeLength) \div 2, (img.width + edgeLength) \div 2>>)
          ELSE Write(img.width, img.height,
                     <<(img.height - edgeLength) \div 2, (img.height + edgeLength) \div 2>>,
                     <<0, img.width>>)

\* the end of a call on the stored file: the file holds the written window
\* afterwards, imwrite tells which window of which source the call wrote, if
\* any
Stored(outcome) ==
  /\ IF outcome.write = None
     THEN image' = image /\ imwrite' = None
     ELSE /\ image' = [width |-> outcome.write.width, height |-> outcome.write.height]
          /\ imwrite' = [left |-> outcome.write.left, top |-> outcome.write.top,
                         width |-> outcome.write.width, height |-> outcome.write.height,
                         of |-> image]
  /\ UNCHANGED <<tables, likeVars, registered, smtp, session>>

CropImage(width, height, hAlign, vAlign) ==
  /\ ret' = [op |-> "cropImage",
             arg |-> [width |-> width, height |-> height, hAlign |-> hAlign, vAlign |-> vAlign],
             res |-> cropImage(image, width, height, hAlign, vAlign).res]
  /\ Stored(cropImage(image, width, height, hAlign, vAlign))

CropImageByScale(width, height) ==
  /\ ret' = [op |-> "cropImageByScale", arg |-> [width |-> width, height |-> height],
             res |-> cropImageByScale(image, width, height).res]
  /\ Stored(cropImageByScale(image, width, height))

CropImageSquare ==
  /\ ret' = [op |-> "cropImageSquare", arg |-> <<>>, res |-> cropImageSquare(image).res]
  /\ Stored(cropImageSquare(image))

\* the file holds an upload of some size, or is missing
InitImg ==
  /\ EmptyTables
  /\ ret = NoRet
  /\ JournalLike = [k \in LikeKeys |-> 0]
  /\ request = [p \in Procs |-> NoCall]
  /\ liked = {}
  /\ calls = 0
  /\ registered = <<>>
  /\ image \in {None} \cup [width : Sides, height : Sides]
  /\ imwrite = None
  /\ smtp = NoMail
  /\ session = [s \in Sessions |-> NoSession]

NextImg ==
  \/ \E w \in Sizes, h \in Sizes, ha \in HAligns, va \in VAligns : CropImage(w, h, ha, va)
  \/ \E w \in Ratios, h \in Ratios : CropImageByScale(w, h)
  \/ CropImageSquare

SpecImg == InitImg /\ [][NextImg]_vars

\* the image the last call was made on
Source == IF imwrite = None THEN image ELSE imwrite.of

Max(a, b) == IF a > b THEN a ELSE b
Min(a, b) == IF a < b THEN a ELSE b
Abs(a) == IF a < 0 THEN 0 - a ELSE a

(* C15: for every source of at least 1 x 1 and every positive ratio w:h,   *)
(* cropImageByScale returns True and writes the largest centered window of *)
(* the ratio: no larger than the source, one dimension in full, the ratio  *)
(* within integer rounding, the removed rows and columns split evenly, and *)
(* a source of the ratio kept in full.                                     *)
C15_LargestCenteredWindow ==
  (ret.op = "cropImageByScale" /\ Source # None) =>
    /\ ret.res = True
    /\ imwrite # None
    /\ imwrite.width <= Source.width /\ imwrite.height <= Source.height
    /\ imwrite.width = Source.width \/ imwrite.height = Source.height
    /\ Abs(imwrite.width * ret.arg.height - imwrite.height * ret.arg.width)
         < Max(ret.arg.width, ret.arg.height)
    /\ Abs((Source.width - imwrite.width - imwrite.left) - imwrite.left) <= 1
    /\ Abs((Source.height - imwrite.height - imwrite.top) - imwrite.top) <= 1
    /\ (Source.width * ret.arg.height = Source.height * ret.arg.width) =>
         (imwrite.width = Source.width /\ imwrite.height = Source.height)

\* a call of cropImage that ended in False or in an exception wrote nothing
\* and left the file as it was
FailedCropKeepsFile ==
  (ret'.op = "cropImage" /\ ret'.res # True) => (image' = image /\ imwrite' = None)

(* C16: cropImage with 1 <= width <= srcW, 1 <= height <= srcH and valid   *)
(* alignments returns True and writes exactly width x height from a window *)
(* inside the source, at column 0, srcW - width or (srcW - width) // 2 and *)
(* at row 0, srcH - height or (srcH - height) // 2, per the alignments.    *)
C16_WindowOfRequestedSize ==
  (/\ ret.op = "cropImage" /\ Source # None
   /\ ret.arg.hAlign \in {"left", "center", "right"}
   /\ ret.arg.vAlign \in {"top", "center", "bottom"}
   /\ 1 <= ret.arg.width /\ ret.arg.width <= Source.width
   /\ 1 <= ret.arg.height /\ ret.arg.height <= Source.height) =>
    /\ ret.res = True
    /\ imwrite # None
    /\ image = [width |-> ret.arg.width, height |-> ret.arg.height]
    /\ imwrite.width = ret.arg.width /\ imwrite.height = ret.arg.height
    /\ imwrite.left >= 0 /\ imwrite.left + imwrite.width <= Source.width
    /\ imwrite.top >= 0 /\ imwrite.top + imwrite.height <= Source.height
    /\ imwrite.left = (CASE ret.arg.hAlign = "left" -> 0
                         [] ret.arg.hAlign = "right" -> Source.width - ret.arg.width
                         [] ret.arg.hAlign = "center" -> (Source.width - ret.arg.width) \div 2)
    /\ imwrite.top = (CASE ret.arg.vAlign = "top" -> 0
                        [] ret.arg.vAlign = "bottom" -> Source.height - ret.arg.height
                        [] ret.arg.vAlign = "center" -> (Source.height - ret.arg.height) \div 2)

\* a centered crop with an odd number of rows and of columns removed
C16_Witness ==
  /\ ret.op = "cropImage" /\ ret.res = True /\ imwrite # None
  /\ ret.arg.hAlign = "center" /\ ret.arg.vAlign = "center"
  /\ (imwrite.of.width - imwrite.width) % 2 = 1
  /\ (imwrite.of.height - imwrite.height) % 2 = 1

(* C17: cropImage with width > srcW or height > srcH returns False and     *)
(* writes nothing, the file stays as it was, whatever the alignments are.  *)
C17_TooLargeIsFalse ==
  /\ []((/\ ret.op = "cropImage" /\ Source # None
         /\ (ret.arg.width > Source.width \/ ret.arg.height > Source.height))
          => (ret.res = False /\ imwrite = None))
  /\ [][FailedCropKeepsFile]_vars

\* a height beyond the source, with a width that fits and an alignment that
\* is not valid
C17_Witness ==
  /\ ret.op = "cropImage" /\ ret.res = False /\ image # None
  /\ ret.arg.height > image.height /\ ret.arg.width <= image.width
  /\ ret.arg.hAlign = "middle"

\* cropImage was called with an alignment outside the valid ones
InvalidAlign ==
  /\ ret.op = "cropImage" /\ Source # None
  /\ ret.arg.hAlign \notin {"left", "center", "right"}
       \/ ret.arg.vAlign \notin {"top", "center", "bottom"}

(* C18: cropImage with an invalid hAlign or vAlign raises ValueError for   *)
(* every requested width and height, sizes larger than the source          *)
(* included, and the file stays as it was.                                 *)
C18_InvalidAlignRaises ==
  /\ [](InvalidAlign => (ret.res = Raise("ValueError") /\ imwrite = None))
  /\ [][FailedCropKeepsFile]_vars

(* C18, amended: cropImage with an invalid hAlign or vAlign raises         *)
(* ValueError when the requested size does not exceed the source, and      *)
(* returns False when it does; in both cases the file stays as it was.     *)
C18_InvalidAlignRaisesIfFits ==
  /\ [](InvalidAlign =>
          /\ imwrite = None
          /\ ret.res = IF ret.arg.width > image.width \/ ret.arg.height > image.height
                       THEN False ELSE Raise("ValueError"))
  /\ [][(ret'.op = "cropImage" /\ ret'.res = Raise("ValueError")) => image' = image]_vars

\* only the horizontal alignment is invalid, the size fits
C18_Witness ==
  /\ ret.op = "cropImage" /\ ret.res = Raise("ValueError") /\ image # None
  /\ ret.arg.hAlign = "middle" /\ ret.arg.vAlign = "center"
  /\ ret.arg.width <= image.width /\ ret.arg.height <= image.height

(* C19: cropImageSquare on a square image writes nothing; on any other     *)
(* image it writes the centered square of side min(width, height); a       *)
(* second cropImageSquare right after the first changes nothing.           *)
C19_SquareOnce ==
  /\ []((ret.op = "cropImageSquare" /\ Source # None) =>
          /\ ret.res = True
          /\ image.width = image.height
          /\ image.width = Min(Source.width, Source.height)
          /\ (Source.width = Source.height) <=> (imwrite = None)
          /\ imwrite # None =>
               /\ imwrite.width = imwrite.height
               /\ imwrite.left = (Source.width - imwrite.width) \div 2
               /\ imwrite.top = (Source.height - imwrite.height) \div 2
               /\ Abs((Source.width - imwrite.width - imwrite.left) - imwrite.left) <= 1
               /\ Abs((Source.height - imwrite.height - imwrite.top) - imwrite.top) <= 1)
  /\ [][(ret.op = "cropImageSquare" /\ ret'.op = "cropImageSquare")
          => (image' = image /\ imwrite' = None)]_vars

\* a square cut out of an image that was not square
C19_Witness ==
  /\ ret.op = "cropImageSquare" /\ ret.res = True /\ imwrite # None
  /\ imwrite.of.width # imwrite.of.height
  /\ imwrite.left + imwrite.top > 0

(* ======================================================================= *)
(* Search accessors                                                        *)
(* ======================================================================= *)
MaxText == 2

\* the characters of stored texts and of keywords: a letter and the two
\* characters that LIKE reads as wildcards
SearchChars == {"a", "%", "_"}
Texts == UNION {[1..n -> SearchChars] : n \in 0..MaxText}
Names == Texts \ {<<>>}

\* text LIKE pattern: % stands for any run of characters, _ for one character
RECURSIVE Like(_, _)
Like(text, pattern) ==
  IF pattern = <<>> THEN text = <<>>
  ELSE IF Head(pattern) = "%"
       THEN \E i \in 0..Len(text) : Like(SubSeq(text, i + 1, Len(text)), Tail(pattern))
  ELSE /\ text # <<>>
       /\ Head(pattern) = "_" \/ Head(pattern) = Head(text)
       /\ Like(Tail(text), Tail(pattern))

\* f"%{keyword}%": the keyword goes into the pattern as it is
Pattern(keyword) == <<"%">> \o keyword \o <<"%">>

\* Database.searchUser(keyword)
searchUser(keyword) ==
  {extractUser(info, FALSE) : info \in {u \in User : Like(u.account, Pattern(keyword))}}

\* Database.searchGroup(keyword)
searchGroup(keyword) ==
  {extractGroup(group) :
     group \in {g \in Group : Like(g.name, Pattern(keyword))
                                \/ Like(g.description, Pattern(keyword))}}

\* Database.searchBook(keyword)
searchBook(keyword) ==
  {extractBook(book) :
     book \in {b \in Book : Like(b.title, Pattern(keyword)) \/ Like(b.author, Pattern(keyword))}}

\* Database.searchJournal(keyword)
searchJournal(keyword) ==
  {[id |-> journal.id, title |-> journal.title, content |-> journal.content,
    authorID |-> journal.authorID, likeNum |-> getJournalLikeNum(journal.id),
    commentNum |-> Cardinality({c \in JournalComment : c.journalID = journal.id})] :
     journal \in {j \in Journal : Like(j.title, Pattern(keyword))
                                    \/ Like(j.content, Pattern(keyword))}}

SearchUser(keyword) ==
  /\ ret' = [op |-> "searchUser", arg |-> keyword, res |-> searchUser(keyword)]
  /\ UNCHANGED <<tables, likeVars, registered, ioVars>>

SearchGroup(keyword) ==
  /\ ret' = [op |-> "searchGroup", arg |-> keyword, res |-> searchGroup(keyword)]
  /\ UNCHANGED <<tables, likeVars, registered, ioVars>>

SearchBook(keyword) ==
  /\ ret' = [op |-> "searchBook", arg |-> keyword, res |-> searchBook(keyword)]
  /\ UNCHANGED <<tables, likeVars, registered, ioVars>>

SearchJournal(keyword) ==
  /\ ret' = [op |-> "searchJournal", arg |-> keyword, res |-> searchJournal(keyword)]
  /\ UNCHANGED <<tables, likeVars, registered, ioVars>>

\* a database in which one of the four searched tables holds rows
InitSearch ==
  /\ \E populated \in {"User", "Group", "Book", "Journal"} :
       /\ User \in IF populated # "User" THEN {{}}
                   ELSE {{[id |-> 1, account |-> ab[1], password |-> generate_password_hash(1, 1)],
                          [id |-> 2, account |-> ab[2], password |-> generate_password_hash(1, 1)]} :
                            ab \in {n \in Names \X Names : n[1] # n[2]}}
       /\ Group \in IF populated # "Group" THEN {{}}
                    ELSE {{[id |-> 1, name |-> n, description |-> d, founderID |-> 1,
                            establishTime |-> 1]} : n \in Names, d \in Texts}
       /\ Book \in IF populated # "Book" THEN {{}}
                   ELSE {{[id |-> 1, title |-> t, author |-> a]} : t \in Names, a \in Texts}
       /\ Journal \in IF populated # "Journal" THEN {{}}
                      ELSE {{[id |-> 1, title |-> t, content |-> c, authorID |-> 1]} :
                              t \in Names, c \in Names}
  /\ JournalComment = {} /\ GroupDiscussion = {} /\ GroupDiscussionReply = {}
  /\ Error = {} /\ Chat = {}
  /\ autoInc = [t \in {"User", "Journal", "JournalComment", "Group", "GroupDiscussion"} |-> 3]
  /\ ret = NoRet
  /\ JournalLike = [k \in LikeKeys |-> 0]
  /\ request = [p \in Procs |-> NoCall]
  /\ liked = {}
  /\ calls = 0
  /\ registered = <<>>
  /\ NoIO

NextSearch ==
  \/ \E k \in Texts : SearchUser(k)
  \/ \E k \in Texts : SearchGroup(k)
  \/ \E k \in Texts : SearchBook(k)
  \/ \E k \in Texts : SearchJournal(k)

SpecSearch == InitSearch /\ [][NextSearch]_vars

\* keyword occurs in text as a run of consecutive characters
Contains(text, keyword) ==
  \E i \in 1..(Len(text) - Len(keyword) + 1) :
    SubSeq(text, i, i + Len(keyword) - 1) = keyword

(* C20: each search returns exactly the rows of which a searched column    *)
(* contains the keyword as a literal substring (users: account; groups:    *)
(* name or description; books: title or author; journals: title or         *)
(* content), also for keywords that contain '%' or '_'.                    *)
C20_LiteralSubstring ==
  /\ ret.op = "searchUser" =>
       {r.id : r \in ret.res} = {u.id : u \in {u \in User : Contains(u.account, ret.arg)}}
  /\ ret.op = "searchGroup" =>
       {r.id : r \in ret.res} =
         {g.id : g \in {g \in Group : Contains(g.name, ret.arg)
                                        \/ Contains(g.description, ret.arg)}}
  /\ ret.op = "searchBook" =>
       {r.id : r \in ret.res} =
         {b.id : b \in {b \in Book : Contains(b.title, ret.arg) \/ Contains(b.author, ret.arg)}}
  /\ ret.op = "searchJournal" =>
       {r.id : r \in ret.res} =
         {j.id : j \in {j \in Journal : Contains(j.title, ret.arg)
                                          \/ Contains(j.content, ret.arg)}}

(* C29: cropImageByScale is idempotent: a second cropImageByScale with the *)
(* same ratio, applied to the image the first one produced, leaves the     *)
(* dimensions of the image as they are.                                    *)
C29_ScaleTwice ==
  [][(/\ ret.op = "cropImageByScale" /\ ret.res = True
      /\ ret'.op = "cropImageByScale" /\ ret'.arg = ret.arg)
       => image' = image]_vars

(* C30: for every source of at least 1 x 1 and every ratio w:h with w >= 1 *)
(* and h >= 1 the window cropImageByScale computes is at least 1 x 1.      *)
C30_WindowNotEmpty ==
  (ret.op = "cropImageByScale" /\ Source # None) =>
    /\ ret.res # Raise("cv2.error")
    /\ imwrite # None
    /\ imwrite.width >= 1 /\ imwrite.height >= 1

(* ======================================================================= *)
(* Password reset: /sendCaptcha and /resetPasswd                           *)
(* ======================================================================= *)
NumCodes == 2

\* the codes random.randint(100000, 999999) can give
Codes == 1..NumCodes
\* the accounts a form can name: those of stored users and one of no user
FormAccounts == Accounts \cup {[letters |-> NumAccounts + 1, upper |-> FALSE]}
\* what mail.sendCaptcha(email, captcha) can end in (see C14)
MailResults == {True, False, Raise("ConnectionRefusedError")}

\* app.sendCaptcha: POST /sendCaptcha with the form field account, the code
\* drawn and the result of the mail call
sendCaptcha(s, account, captcha, mailed) ==
  /\ \E user \in getUserByAccount(account, FALSE) :
       IF user = None
       THEN /\ ret' = [op |-> "/sendCaptcha",
                       arg |-> [session |-> s, account |-> account, captcha |-> captcha,
                                mailed |-> None],
                       res |-> Value("redirect register")]
            /\ UNCHANGED session
       ELSE IF mailed.kind = "raise"
       THEN /\ ret' = [op |-> "/sendCaptcha",
                       arg |-> [session |-> s, account |-> account, captcha |-> captcha,
                                mailed |-> mailed],
                       res |-> mailed]
            /\ UNCHANGED session
       ELSE /\ session' = [session EXCEPT ![s].captcha = Value(captcha),
                                          ![s].resetPasswdAccount = Value(account)]
            /\ ret' = [op |-> "/sendCaptcha",
                       arg |-> [session |-> s, account |-> account, captcha |-> captcha,
                                mailed |-> mailed],
                       res |-> Value("code sent, redirect resetPasswd")]
  /\ UNCHANGED <<tables, likeVars, registered, image, imwrite, smtp>>

\* app.resetPasswd: POST /resetPasswd with the form fields captcha and
\* password; request.form.get gives None for a field the form does not hold
resetPasswd(s, captcha, password, salt) ==
  /\ IF captcha # session[s].captcha
     THEN /\ ret' = [op |-> "/resetPasswd",
                     arg |-> [session |-> s, captcha |-> captcha, password |-> password],
                     res |-> Value("wrong code, redirect resetPasswd")]
          /\ UNCHANGED User
     ELSE \E user \in FirstRows({u \in User :
                 /\ session[s].resetPasswdAccount # None
                 /\ CollationKey(u.account) =
                      CollationKey(session[s].resetPasswdAccount.val)}) :
            IF user = None
            THEN /\ ret' = [op |-> "/resetPasswd",
                            arg |-> [session |-> s, captcha |-> captcha, password |-> password],
                            res |-> Raise("AttributeError")]
                 /\ UNCHANGED User
            ELSE /\ User' = (User \ {user}) \cup
                              {[user EXCEPT !.password = generate_password_hash(password, salt)]}
                 /\ ret' = [op |-> "/resetPasswd",
                            arg |-> [session |-> s, captcha |-> captcha, password |-> password],
                            res |-> Value("password changed, redirect login")]
  /\ UNCHANGED <<Journal, JournalComment, Group, GroupDiscussion, GroupDiscussionReply, Book,
                 Error, Chat, autoInc, likeVars, registered, ioVars>>

InitReset ==
  /\ User = {[id |-> i, account |-> [letters |-> i, upper |-> FALSE],
              password |-> generate_password_hash(1, 1), signature |-> 0] : i \in ModifyIDs}
  /\ Book = {} /\ Group = {}
  /\ Journal = {} /\ JournalComment = {} /\ GroupDiscussion = {}
  /\ GroupDiscussionReply = {} /\ Error = {} /\ Chat = {}
  /\ autoInc = [t \in {"User", "Journal", "JournalComment", "Group", "GroupDiscussion"} |->
                  MaxRows + 1]
  /\ ret = NoRet
  /\ JournalLike = [k \in LikeKeys |-> 0]
  /\ request = [p \in Procs |-> NoCall]
  /\ liked = {}
  /\ calls = 0
  /\ registered = <<>>
  /\ NoIO

NextReset ==
  \/ \E s \in Sessions, a \in FormAccounts, c \in Codes, m \in MailResults :
       sendCaptcha(s, a, c, m)
  \/ \E s \in Sessions, c \in {None} \cup {Value(k) : k \in Codes}, w \in Passwords,
        t \in Salts : resetPasswd(s, c, w, t)

SpecReset == InitReset /\ [][NextReset]_vars

\* the session that made the last request
Asking == session[ret.arg.session]

\* a step that changes a stored password is a /resetPasswd of a session that
\* holds a code, submits that code, and changes only the account the session
\* asked the code for
ChangedByOwnCode ==
  User' # User =>
    /\ ret'.op = "/resetPasswd"
    /\ session[ret'.arg.session].captcha # None
    /\ ret'.arg.captcha = session[ret'.arg.session].captcha
    /\ \A u \in User : u \notin User' =>
         CollationKey(u.account) =
           CollationKey(session[ret'.arg.session].resetPasswdAccount.val)

(* C22: /resetPasswd changes a stored password only if /sendCaptcha gave   *)
(* the session a code earlier and the submitted code equals it, and only   *)
(* the password of the account named in that /sendCaptcha; a request with  *)
(* a wrong code, or in a session that was never given a code, changes no   *)
(* password and ends with the 'wrong code' redirect, not with an error.    *)
C22_ResetNeedsCode ==
  /\ [][ChangedByOwnCode]_vars
  /\ [][(ret'.op = "/resetPasswd"
          /\ (session[ret'.arg.session].captcha = None
                \/ ret'.arg.captcha # session[ret'.arg.session].captcha))
         => User' = User]_vars
  /\ []((ret.op = "/resetPasswd"
          /\ (Asking.captcha = None \/ ret.arg.captcha # Asking.captcha))
         => ret.res = Value("wrong code, redirect resetPasswd"))

(* C23: when the mail call of /sendCaptcha returns False, the handler      *)
(* answers with an error: it does not report the code as sent and the      *)
(* session does not hold the code of this request.                         *)
C23_MailFailureReported ==
  (ret.op = "/sendCaptcha" /\ ret.arg.mailed = False) =>
    /\ ret.res # Value("code sent, redirect resetPasswd")
    /\ Asking.captcha # Value(ret.arg.captcha)

(* ======================================================================= *)
(* Read flags over the accessors of SpecMsg                                *)
(* ======================================================================= *)
\* what identifies a stored item from one state to the next
ReplyKey(r) == <<r.authorID, r.discussionID, r.replyTime>>

\* rows that were not stored before the step have isRead false, and a row
\* whose isRead was true still has it true if it is still stored
FlagsKept(old, new, Key(_)) ==
  /\ \A n \in new : (\A o \in old : Key(o) # Key(n)) => n.isRead = FALSE
  /\ \A o \in old, n \in new : (Key(o) = Key(n) /\ o.isRead) => n.isRead

RowID(row) == row.id

(* C26: every journal comment, group discussion, discussion reply and chat *)
(* is created with isRead false, and no step sets an isRead that is true   *)
(* back to false.                                                          *)
C26_ReadFlagsMonotone ==
  [][/\ FlagsKept(JournalComment, JournalComment', RowID)
     /\ FlagsKept(GroupDiscussion, GroupDiscussion', RowID)
     /\ FlagsKept(GroupDiscussionReply, GroupDiscussionReply', ReplyKey)
     /\ FlagsKept(Chat, Chat', RowID)]_vars

\* a discussion was read, then another was posted to the same group and the
\* group viewed again
C26_Witness ==
  \E c, d \in GroupDiscussion : c.id < d.id /\ c.groupID = d.groupID /\ c.isRead /\ d.isRead

(* ======================================================================= *)
(* Request handlers of app.py: login, logout and the content views         *)
(* ======================================================================= *)
\* session.get("loginUser") is set, and the id of the user it holds
LoggedIn(s) == session[s].loginUser # None
LoginID(s) == session[s].loginUser.val.id

\* what a handler answered: id is the id in the route (0 when it has none),
\* res the response or the exception that left the handler, db tells whether
\* the handler called the Database object
Request(op, s, id, res, db) ==
  [op |-> op, arg |-> [session |-> s, id |-> id], res |-> res, db |-> db]

\* flash("请先登录"); return redirect(url_for("index"))
RedirectIndex == Value("redirect index")

\* the state no request handler of this section changes
viewFrame == <<User, Journal, Book, Error, Chat, request, calls, registered,
               image, imwrite, smtp>>

\* rows the handlers of this section have inserted so far
ViewRows == Cardinality(JournalComment) + Cardinality(liked)
              + (autoInc["GroupDiscussion"] - 1) + Cardinality(GroupDiscussionReply)

\* ids a form field can carry: the id of a stored user, or of no user
FormUserIDs == UserIDs \cup {NoUser}

\* groupName and groupDescription of the edit form
GroupNames == 1..(NumGroups + 1)
Descriptions == {1}

\* index, POST: db.checkLogin(account, password); the user that
\* db.getUser(userID) gives is put into session["loginUser"]
\* (db.modifyUser(id, lastLoginTime=...) writes a column no claim reads)
indexPOST(s, account, password) ==
  /\ \E userID \in checkLogin(account, password) :
       IF userID # False
       THEN /\ \E user \in getUser(userID.val) :
                 session' = [session EXCEPT ![s].loginUser = user]
            /\ ret' = Request("POST /", s, 0, Value("redirect home"), TRUE)
       ELSE /\ UNCHANGED session
            /\ ret' = Request("POST /", s, 0, RedirectIndex, TRUE)
  /\ UNCHANGED <<viewFrame, JournalComment, JournalLike, liked, Group, GroupDiscussion,
                 GroupDiscussionReply, autoInc>>

\* logout: session.pop("loginUser") when the key is there
logout(s) ==
  /\ session' = [session EXCEPT ![s].loginUser = None]
  /\ ret' = Request("GET /logout", s, 0, RedirectIndex, FALSE)
  /\ UNCHANGED <<viewFrame, JournalComment, JournalLike, liked, Group, GroupDiscussion,
                 GroupDiscussionReply, autoInc>>

\* journal, GET: no test of the session; db.getJournal, db.getUser,
\* db.getBook(journal["bookID"]), then the account of every comment's author,
\* and only then the marking when the logged-in user is the journal's author
journalGET(s, journalID) ==
  /\ LET rows == {j \in Journal : j.id = journalID}
         comments == {c \in JournalComment : c.journalID = journalID}
         res == IF rows = {} THEN Raise("AttributeError")
                ELSE IF \A b \in Book : \A j \in rows : b.id # j.bookID
                THEN Raise("AttributeError")
                ELSE IF \E c \in comments : ~HasAccount(c.authorID)
                THEN Raise("TypeError")
                ELSE Value("journal.html")
     IN /\ JournalComment' =
             IF /\ res.kind = "value"
                /\ LoggedIn(s)
                /\ \A j \in rows : j.authorID = LoginID(s)
             THEN MarkedJournalComments(journalID)
             ELSE JournalComment
        /\ ret' = Request("GET /journal", s, journalID, res, TRUE)
  /\ UNCHANGED <<viewFrame, JournalLike, liked, Group, GroupDiscussion,
                 GroupDiscussionReply, autoInc, session>>

\* journal, POST with commentUserID: the session is tested, then
\* db.addJournalComment(journalID, comment, int(data["commentUserID"]), publishTime)
journalPOSTcomment(s, journalID, commentUserID) ==
  /\ IF ~LoggedIn(s)
     THEN /\ ret' = Request("POST /journal", s,
                            journalID,
                            RedirectIndex, FALSE)
          /\ UNCHANGED <<JournalComment, autoInc>>
     ELSE /\ ViewRows < MaxRows
          /\ JournalComment' = JournalComment \cup
               {[id |-> autoInc["JournalComment"], journalID |-> journalID,
                 authorID |-> commentUserID, isRead |-> FALSE]}
          /\ autoInc' = [autoInc EXCEPT !["JournalComment"] = @ + 1]
          /\ ret' = Request("POST /journal", s,
                            journalID,
                            Value("comment"), TRUE)
  /\ UNCHANGED <<viewFrame, JournalLike, liked, Group, GroupDiscussion,
                 GroupDiscussionReply, session>>

\* journal, POST with likeUserID: the session is tested, then
\* db.getJournal(journalID)["likeNum"] and db.addJournalLike(journalID, data["likeUserID"])
journalPOSTlike(s, journalID, likeUserID) ==
  /\ IF ~LoggedIn(s)
     THEN /\ ret' = Request("POST /journal", s,
                            journalID,
                            RedirectIndex, FALSE)
          /\ UNCHANGED <<JournalLike, liked>>
     ELSE IF \A j \in Journal : j.id # journalID
     THEN /\ ret' = Request("POST /journal", s,
                            journalID,
                            Raise("AttributeError"), TRUE)
          /\ UNCHANGED <<JournalLike, liked>>
     ELSE IF LikeExists(likeUserID, journalID)
     THEN /\ ret' = Request("POST /journal", s,
                            journalID,
                            Value("isLiked"), TRUE)
          /\ UNCHANGED <<JournalLike, liked>>
     ELSE /\ ViewRows < MaxRows
          /\ JournalLike' = [JournalLike EXCEPT ![<<likeUserID, journalID>>] = @ + 1]
          /\ liked' = liked \cup {<<likeUserID, journalID>>}
          /\ ret' = Request("POST /journal", s,
                            journalID,
                            Value("like"), TRUE)
  /\ UNCHANGED <<viewFrame, JournalComment, Group, GroupDiscussion,
                 GroupDiscussionReply, autoInc, session>>

\* the replies db.getGroupReplies(groupID) returns (the latest five)
GroupReplies(groupID) ==
  {r \in GroupDiscussionReply :
     \E d \in GroupDiscussion : d.groupID = groupID /\ d.id = r.discussionID}

\* group, GET: the session is tested; db.getGroup, the founder's account, the
\* marking when the logged-in user is the founder, then the accounts of the
\* posters and of the authors of the latest replies
groupGET(s, groupID) ==
  /\ IF ~LoggedIn(s)
     THEN /\ ret' = Request("GET /group", s, groupID, RedirectIndex, FALSE)
          /\ UNCHANGED GroupDiscussion
     ELSE \E group \in getGroup(groupID) :
            IF group.kind = "raise"
            THEN /\ ret' = Request("GET /group", s, groupID, group, TRUE)
                 /\ UNCHANGED GroupDiscussion
            ELSE IF ~HasAccount(group.val.founderID)
            THEN /\ ret' = Request("GET /group", s, groupID,
                                   Raise("TypeError"), TRUE)
                 /\ UNCHANGED GroupDiscussion
            ELSE /\ GroupDiscussion' =
                      IF LoginID(s) = group.val.founderID
                      THEN MarkedDiscussions(groupID)
                      ELSE GroupDiscussion
                 /\ ret' = Request("GET /group", s, groupID,
                        IF \/ \E d \in GroupDiscussion :
                                 d.groupID = groupID /\ ~HasAccount(d.posterID)
                           \/ \E r \in GroupReplies(groupID) : ~HasAccount(r.authorID)
                        THEN Raise("TypeError")
                        ELSE Value("group.html"), TRUE)
  /\ UNCHANGED <<viewFrame, JournalComment, JournalLike, liked, Group,
                 GroupDiscussionReply, autoInc, session>>

\* editGroup, POST: the session is tested; db.getGroup(groupID); a user who
\* is not the founder of groupID is sent home; operation deleteDiscussion
\* calls db.deleteGroupDiscussion(int(data['discussionID'])), operation
\* editGroupInfo calls db.modifyGroup(groupID, name=name, description=description)
editGroupPOST(s, groupID, data) ==
  /\ IF ~LoggedIn(s)
     THEN /\ ret' = Request("POST /editGroup", s, groupID,
                            RedirectIndex, FALSE)
          /\ UNCHANGED <<Group, GroupDiscussion>>
     ELSE \E group \in getGroup(groupID) :
            IF group.kind = "raise"
            THEN /\ ret' = Request("POST /editGroup", s, groupID,
                                   group, TRUE)
                 /\ UNCHANGED <<Group, GroupDiscussion>>
            ELSE IF ~HasAccount(group.val.founderID)
            THEN /\ ret' = Request("POST /editGroup", s, groupID,
                                   Raise("TypeError"), TRUE)
                 /\ UNCHANGED <<Group, GroupDiscussion>>
            ELSE IF LoginID(s) # group.val.founderID
            THEN /\ ret' = Request("POST /editGroup", s, groupID,
                                   Value("no permission, redirect home"), TRUE)
                 /\ UNCHANGED <<Group, GroupDiscussion>>
            ELSE IF data.operation = "deleteDiscussion"
            THEN /\ GroupDiscussion' =
                      GroupDiscussion \ {d \in GroupDiscussion : d.id = data.discussionID}
                 /\ ret' = Request("POST /editGroup", s, groupID,
                                   Value("success"), TRUE)
                 /\ UNCHANGED Group
            ELSE \E row \in {g \in Group : g.id = groupID} :
                   LET kwargs == [name |-> data.groupName,
                                  description |-> data.groupDescription]
                   IN IF \E g \in Group : g.id # row.id /\ g.name = kwargs.name
                      THEN /\ ret' = Request("POST /editGroup", s,
                                             groupID,
                                             Raise("IntegrityError"), TRUE)
                           /\ UNCHANGED <<Group, GroupDiscussion>>
                      ELSE /\ Group' = (Group \ {row}) \cup {SetAttrs(row, kwargs)}
                           /\ ret' = Request("POST /editGroup", s,
                                             groupID,
                                             Value("redirect group"), TRUE)
                           /\ UNCHANGED GroupDiscussion
  /\ UNCHANGED <<viewFrame, JournalComment, JournalLike, liked,
                 GroupDiscussionReply, autoInc, session>>

\* the forms editGroup reads
EditGroupForms ==
  {[operation |-> "deleteDiscussion", discussionID |-> d] : d \in DiscussionIDs}
    \cup {[operation |-> "editGroupInfo", groupName |-> n, groupDescription |-> t] :
            n \in GroupNames, t \in Descriptions}

\* writeDiscussion, POST: the session is tested, the poster is the logged-in user
writeDiscussionPOST(s, groupID, postTime) ==
  /\ IF ~LoggedIn(s)
     THEN /\ ret' = Request("POST /writeDiscussion", s, groupID,
                            RedirectIndex, FALSE)
          /\ UNCHANGED <<GroupDiscussion, autoInc>>
     ELSE /\ ViewRows < MaxRows
          /\ GroupDiscussion' = GroupDiscussion \cup
               {NewGroupDiscussion(LoginID(s), groupID, postTime)}
          /\ autoInc' = [autoInc EXCEPT !["GroupDiscussion"] = @ + 1]
          /\ ret' = Request("POST /writeDiscussion", s, groupID,
                            Value("redirect discussion"), TRUE)
  /\ UNCHANGED <<viewFrame, JournalComment, JournalLike, liked, Group,
                 GroupDiscussionReply, session>>

\* discussion, GET: the session is tested; db.getGroupDiscussion, the marking
\* when the logged-in user is the poster, then the account of every reply's author
discussionGET(s, discussionID) ==
  /\ IF ~LoggedIn(s)
     THEN /\ ret' = Request("GET /discussion", s, discussionID,
                            RedirectIndex, FALSE)
          /\ UNCHANGED GroupDiscussionReply
     ELSE \E discussion \in getGroupDiscussion(discussionID) :
            IF discussion.kind = "raise"
            THEN /\ ret' = Request("GET /discussion", s, discussionID,
                                   discussion, TRUE)
                 /\ UNCHANGED GroupDiscussionReply
            ELSE /\ GroupDiscussionReply' =
                      IF LoginID(s) = discussion.val.posterID
                      THEN MarkedDiscussionReplies(discussionID)
                      ELSE GroupDiscussionReply
                 /\ ret' = Request("GET /discussion", s, discussionID,
                        IF \E r \in GroupDiscussionReply :
                             r.discussionID = discussionID /\ ~HasAccount(r.authorID)
                        THEN Raise("TypeError")
                        ELSE Value("discussion.html"), TRUE)
  /\ UNCHANGED <<viewFrame, JournalComment, JournalLike, liked, Group,
                 GroupDiscussion, autoInc, session>>

\* discussion, POST: the session is tested, then
\* db.addGroupDiscussionReply(discussionID, int(data['replyUserID']), replyContent, replyTime)
discussionPOST(s, discussionID, replyUserID, replyTime) ==
  /\ IF ~LoggedIn(s)
     THEN /\ ret' = Request("POST /discussion", s,
                            discussionID,
                            RedirectIndex, FALSE)
          /\ UNCHANGED GroupDiscussionReply
     ELSE IF \E r \in GroupDiscussionReply : /\ r.authorID = replyUserID
                                             /\ r.discussionID = discussionID
                                             /\ r.replyTime = replyTime
     THEN /\ ret' = Request("POST /discussion", s,
                            discussionID,
                            Raise("IntegrityError"), TRUE)
          /\ UNCHANGED GroupDiscussionReply
     ELSE /\ ViewRows < MaxRows
          /\ GroupDiscussionReply' = GroupDiscussionReply \cup
               {[authorID |-> replyUserID, discussionID |-> discussionID,
                 replyTime |-> replyTime, isRead |-> FALSE]}
          /\ ret' = Request("POST /discussion", s,
                            discussionID,
                            Value("reply"), TRUE)
  /\ UNCHANGED <<viewFrame, JournalComment, JournalLike, liked, Group,
                 GroupDiscussion, autoInc, session>>

\* message, GET: the session is tested; db.getAllUnreadMessage of the
\* logged-in user, then db.getJournal, db.getGroup and db.getGroupDiscussion
\* of the parents; nothing is marked
messageGET(s) ==
  /\ IF ~LoggedIn(s)
     THEN ret' = Request("GET /message", s, 0, RedirectIndex, FALSE)
     ELSE LET messages == getAllUnreadMessage(LoginID(s))
          IN ret' = Request("GET /message", s, 0,
                      IF messages.kind = "raise" THEN messages
                      ELSE IF \E c \in messages.val.journalComment :
                                \A j \in Journal : j.id # c.item.journalID
                      THEN Raise("AttributeError")
                      ELSE Value("message.html"), TRUE)
  /\ UNCHANGED <<viewFrame, JournalComment, JournalLike, liked, Group, GroupDiscussion,
                 GroupDiscussionReply, autoInc, session>>

\* every user has an account and the password 1, every group a founder,
\* every journal an author and a stored book; nobody is logged in
InitView ==
  /\ User = {[id |-> u, account |-> [letters |-> u, upper |-> FALSE],
              password |-> generate_password_hash(1, 1)] : u \in UserIDs}
  /\ Group = {[id |-> g, name |-> g, description |-> 0,
               founderID |-> ((g - 1) % NumUsers) + 1, establishTime |-> 1] : g \in GroupIDs}
  /\ Book = {[id |-> 1, title |-> 1]}
  /\ Journal = {[id |-> j, authorID |-> ((j - 1) % NumUsers) + 1, bookID |-> 1] :
                  j \in JournalIDs}
  /\ Chat = {[id |-> u, senderID |-> u, receiverID |-> (u % NumUsers) + 1,
              isRead |-> FALSE] : u \in UserIDs}
  /\ JournalComment = {} /\ GroupDiscussion = {} /\ GroupDiscussionReply = {} /\ Error = {}
  /\ autoInc = [t \in {"User", "Journal", "JournalComment", "Group", "GroupDiscussion"} |-> 1]
  /\ ret = NoRet
  /\ JournalLike = [k \in LikeKeys |-> 0]
  /\ request = [p \in Procs |-> NoCall]
  /\ liked = {}
  /\ calls = 0
  /\ registered = <<>>
  /\ NoIO

NextView ==
  \/ \E s \in Sessions, a \in Accounts, w \in Passwords : indexPOST(s, a, w)
  \/ \E s \in Sessions : logout(s)
  \/ \E s \in Sessions, j \in JournalIDs : journalGET(s, j)
  \/ \E s \in Sessions, j \in JournalIDs, a \in FormUserIDs : journalPOSTcomment(s, j, a)
  \/ \E s \in Sessions, j \in JournalIDs, a \in UserIDs : journalPOSTlike(s, j, a)
  \/ \E s \in Sessions, g \in GroupIDs : groupGET(s, g)
  \/ \E s \in Sessions, g \in GroupIDs, data \in EditGroupForms : editGroupPOST(s, g, data)
  \/ \E s \in Sessions, g \in GroupIDs, t \in Times : writeDiscussionPOST(s, g, t)
  \/ \E s \in Sessions, d \in DiscussionIDs : discussionGET(s, d)
  \/ \E s \in Sessions, d \in DiscussionIDs, a \in FormUserIDs, t \in Times :
       discussionPOST(s, d, a, t)
  \/ \E s \in Sessions : messageGET(s)

SpecView == InitView /\ [][NextView]_vars

\* the session that made the last request, and the user logged in to it
Asker == ret'.arg.session
AskerIs(userID) == LoggedIn(Asker) /\ LoginID(Asker) = userID

\* the routes that serve content
ViewOps == {"GET /journal", "POST /journal", "GET /group", "POST /editGroup",
            "POST /writeDiscussion", "GET /discussion", "POST /discussion", "GET /message"}

\* the read flags of the three tables the views mark
ReadFlags == <<JournalComment, GroupDiscussion, GroupDiscussionReply>>

(* C21: GET /journal/<j> marks the comments of j as read exactly when the  *)
(* logged-in user is the author of j, GET /group/<g> the discussions of g  *)
(* exactly when the logged-in user is its founder, GET /discussion/<d> the *)
(* replies of d exactly when the logged-in user is its poster; a view by   *)
(* another user or by a visitor leaves every read flag as it was.          *)
C21_ViewMarksForOwner ==
  [][/\ ret'.op = "GET /journal" =>
          ReadFlags' =
            IF \E j \in Journal : j.id = ret'.arg.id /\ AskerIs(j.authorID)
            THEN <<MarkedJournalComments(ret'.arg.id), GroupDiscussion, GroupDiscussionReply>>
            ELSE ReadFlags
     /\ ret'.op = "GET /group" =>
          ReadFlags' =
            IF \E g \in Group : g.id = ret'.arg.id /\ AskerIs(g.founderID)
            THEN <<JournalComment, MarkedDiscussions(ret'.arg.id), GroupDiscussionReply>>
            ELSE ReadFlags
     /\ ret'.op = "GET /discussion" =>
          ReadFlags' =
            IF \E d \in GroupDiscussion : d.id = ret'.arg.id /\ AskerIs(d.posterID)
            THEN <<JournalComment, GroupDiscussion, MarkedDiscussionReplies(ret'.arg.id)>>
            ELSE ReadFlags]_vars

\* a discussion that is stored before the step and not after it
Deleted(d) == d \in GroupDiscussion /\ \A n \in GroupDiscussion' : n.id # d.id

\* a group whose name or description the step changes
Edited(g) ==
  /\ g \in Group
  /\ \E n \in Group' : n.id = g.id /\ (n.name # g.name \/ n.description # g.description)

(* C24: a group's name or description is changed, and a discussion is      *)
(* deleted, only by POST /editGroup of the logged-in founder of the group  *)
(* that owns the changed record; POST /editGroup/<g> by a logged-in user   *)
(* who is not the founder of g answers 'no permission' and changes nothing.*)
C24_OnlyFounderEdits ==
  [][/\ \A d \in GroupDiscussion :
          Deleted(d) => /\ ret'.op = "POST /editGroup"
                        /\ \E g \in Group : g.id = d.groupID /\ AskerIs(g.founderID)
     /\ \A g \in Group :
          Edited(g) => ret'.op = "POST /editGroup" /\ AskerIs(g.founderID)
     /\ \A g \in Group :
          (/\ ret'.op = "POST /editGroup" /\ ret'.arg.id = g.id
           /\ LoggedIn(Asker) /\ ~AskerIs(g.founderID))
            => /\ ret'.res = Value("no permission, redirect home")
               /\ UNCHANGED <<Group, GroupDiscussion>>]_vars

(* C25: a request to a content route made while nobody is logged in to the *)
(* session is redirected to the index page before the handler calls the    *)
(* database, and stores nothing; session["loginUser"] changes only by a    *)
(* successful login and by logout.                                         *)
C25_SessionCheckedFirst ==
  [][/\ (ret'.op \in ViewOps /\ ~LoggedIn(Asker))
          => /\ ret'.res = RedirectIndex
             /\ ret'.db = FALSE
             /\ UNCHANGED <<tables, JournalLike>>
     /\ \A s \in Sessions :
          session'[s].loginUser # session[s].loginUser
            => \/ /\ ret'.op = "POST /" /\ ret'.res = Value("redirect home")
                  /\ session'[s].loginUser # None
               \/ ret'.op = "GET /logout" /\ session'[s].loginUser = None]_vars

\* the rows a step stores
NewComments == {n \in JournalComment' : \A o \in JournalComment : o.id # n.id}
NewLikes == {k \in LikeKeys : JournalLike'[k] > JournalLike[k]}
NewReplies ==
  {n \in GroupDiscussionReply' : \A o \in GroupDiscussionReply : ReplyKey(o) # ReplyKey(n)}

(* C27: every journal comment, like and discussion reply that POST         *)
(* /journal/<id> or POST /discussion/<id> stores has as authorID the id of *)
(* the user logged in to the session of the request, and every stored      *)
(* authorID is the id of a stored user.                                    *)
C27_AuthorIsSessionUser ==
  [][/\ \A c \in NewComments : AskerIs(c.authorID) /\ HasAccount(c.authorID)
     /\ \A k \in NewLikes : AskerIs(k[1]) /\ HasAccount(k[1])
     /\ \A r \in NewReplies : AskerIs(r.authorID) /\ HasAccount(r.authorID)]_vars

(* C28: for every user u and every item getAllUnreadMessage(u) returns, u  *)
(* has a request that clears it: after u's view of the parent journal, of  *)
(* the parent group or of the parent discussion is rendered, no item of    *)
(* that parent is returned to u any more.                                  *)
C28_OwnViewClears ==
  [][\A u \in UserIDs :
       (AskerIs(u) /\ ret'.res.kind = "value") =>
         /\ ret'.op = "GET /journal" =>
              \A c \in JournalComment' :
                (c.authorID = u /\ c.journalID = ret'.arg.id) => c.isRead
         /\ ret'.op = "GET /group" =>
              \A d \in GroupDiscussion' :
                (d.groupID = ret'.arg.id
                   /\ \E g \in Group : g.id = d.groupID /\ g.founderID = u) => d.isRead
         /\ ret'.op = "GET /discussion" =>
              \A r \in GroupDiscussionReply' :
                (r.discussionID = ret'.arg.id
                   /\ \E d \in GroupDiscussion : d.id = r.discussionID /\ d.posterID = u)
                  => r.isRead]_vars

====
